---- MODULE Spec2Model ----
(***************************************************************************)
(* CreatorsCook virality engine: product containers, the ingestion         *)
(* pipeline (scrape -> insights -> angle reasoning), pack regeneration,    *)
(* angle credits and the script compliance scorer.                         *)
(*                                                                         *)
(* Every awaited call of a handler is one step of a process, so that       *)
(* handlers interleave exactly where the event loop lets them.  Calls to   *)
(* the persistence store and to the external services return either a      *)
(* result or an error; the model draws both outcomes.                      *)
(***************************************************************************)
EXTENDS Integers, Sequences, FiniteSets, TLC

(***************************************************************************)
(* Bounds of the model.                                                    *)
(***************************************************************************)
MaxCreates == 2
MaxIngests == 2
MaxRegens == 2
MaxCredits == 1
MaxGets == 2
MaxPacks == 1
MaxFlags == 5
\* flags of each severity in the lists the risk classifier is called with
MaxHigh == 2
MaxMedium == 4
MaxLow == 20
\* UTF-16 units of a script, and keywords of a brand rule list
MaxContent == 3
MaxKeywords == 2
\* overlapping calls of analyzeScript, and suggestions in one provider answer
MaxAnalyses == 2
MaxSuggestions == 1
\* calls of createProductContainer in the specifications of the pipeline
PipelineCreates == 1
\* ingest requests in the specification of regeneration
RegenIngests == 1

(***************************************************************************)
(* Small helpers.                                                          *)
(***************************************************************************)
Range(s) == {s[i] : i \in 1..Len(s)}

Min2(a, b) == IF a <= b THEN a ELSE b

Max2(a, b) == IF a >= b THEN a ELSE b

RECURSIVE SeqOfSet(_)
SeqOfSet(S) ==
  IF S = {} THEN <<>>
  ELSE LET x == CHOOSE y \in S : \A z \in S : y <= z
       IN <<x>> \o SeqOfSet(S \ {x})

Take(s, n) == SubSeq(s, 1, Min2(n, Len(s)))

NoValue == "undefined"

(***************************************************************************)
(* URLs.  A URL is what `new URL(url)` makes of it: whether it parses, its *)
(* protocol, and which of the marker strings its hostname and pathname     *)
(* contain.                                                                *)
(***************************************************************************)
Url(parses, protocol, host, path) ==
  [parses |-> parses, protocol |-> protocol, hostname |-> host, pathname |-> path]

UrlTikTokShop == Url(TRUE, "https:", {"tiktok.com"}, {"/shop/"})
UrlAmazon == Url(TRUE, "https:", {"amazon.com"}, {})
UrlExternal == Url(TRUE, "https:", {}, {})
UrlFtp == Url(TRUE, "ftp:", {"amazon.com"}, {})
UrlGarbage == Url(FALSE, NoValue, {}, {})

ProductUrls == {UrlAmazon, UrlExternal, UrlFtp, UrlGarbage}

\* String.prototype.includes on the hostname / pathname of the URL
Includes(haystack, needle) == needle \in haystack

validateAndDetectPlatform(url) ==
  IF ~url.parses
  THEN [valid |-> FALSE, platform |-> "", error |-> "Invalid URL format"]
  ELSE IF url.protocol \notin {"http:", "https:"}
  THEN [valid |-> FALSE, platform |-> "", error |-> "Invalid URL protocol"]
  ELSE IF Includes(url.hostname, "tiktok.com") /\ Includes(url.pathname, "/shop/")
  THEN [valid |-> TRUE, platform |-> "tiktok_shop", error |-> NoValue]
  ELSE IF Includes(url.hostname, "amazon.com") \/ Includes(url.hostname, "amzn.to")
  THEN [valid |-> TRUE, platform |-> "amazon", error |-> NoValue]
  ELSE IF Includes(url.hostname, "aliexpress.com")
          \/ Includes(url.hostname, "s.click.aliexpress.com")
  THEN [valid |-> TRUE, platform |-> "aliexpress", error |-> NoValue]
  ELSE [valid |-> TRUE, platform |-> "external", error |-> NoValue]

(***************************************************************************)
(* Rationals, for the sentiment arithmetic: a pair num/den with den > 0.   *)
(***************************************************************************)
Rat(n, d) == [num |-> n, den |-> d]

RatLess(a, b) == a.num * b.den < b.num * a.den

RatEq(a, b) == a.num * b.den = b.num * a.den

RatAdd(a, b) == Rat(a.num * b.den + b.num * a.den, a.den * b.den)

RatDivInt(a, k) == Rat(a.num, a.den * k)

Abs(x) == IF x < 0 THEN -x ELSE x

\* a rational as hundredths, rounded half away from zero: a DECIMAL(3,2) column
Decimal32(a) ==
  LET q == (2 * 100 * Abs(a.num) + a.den) \div (2 * a.den)
  IN IF a.num < 0 THEN -q ELSE q

(***************************************************************************)
(* Reviews.  The content of a review is a sequence of tokens; a token is a *)
(* word or a fixed phrase.  KeywordsIn gives, for a token, the keywords of *)
(* the theme patterns that occur in it as substrings.                      *)
(***************************************************************************)
Review(rating, title, content) ==
  [rating |-> rating, title |-> title, content |-> content]

Tokens ==
  {"taste", "money", "good", "bad", "helpful", "energy", "amazing", "great",
   "terrible", "and", "waste of money", "ACME", "Premium Greens", "benefit"}

toLowerCase(token) ==
  CASE token = "ACME" -> "acme"
    [] token = "Premium Greens" -> "premium greens"
    [] OTHER -> token

KeywordsIn(token) ==
  CASE token = "taste" -> {"taste"}
    [] token = "money" -> {"money"}
    [] token = "good" -> {"good"}
    [] token = "bad" -> {"bad"}
    [] token = "helpful" -> {"help"}
    [] token = "waste of money" -> {"money"}
    [] token = "benefit" -> {"fit"}
    [] OTHER -> {}

ThemeRules ==
  << [theme |-> "taste_quality",
      keywords |-> {"taste", "flavor", "gross", "delicious", "yummy", "awful", "good", "bad"}],
     [theme |-> "price_value",
      keywords |-> {"price", "cost", "expensive", "cheap", "worth", "value", "money"}],
     [theme |-> "effectiveness",
      keywords |-> {"work", "result", "effect", "effective", "useless", "help", "improve",
                    "better", "worse"}],
     [theme |-> "build_quality",
      keywords |-> {"quality", "build", "durable", "cheaply", "sturdy", "fragile",
                    "well-made", "poorly-made"}],
     [theme |-> "customer_service",
      keywords |-> {"service", "support", "customer", "help", "response", "reply",
                    "company", "seller"}],
     [theme |-> "shipping_delivery",
      keywords |-> {"shipping", "delivery", "arrive", "package", "box", "damaged", "fast",
                    "slow"}],
     [theme |-> "ease_of_use",
      keywords |-> {"easy", "difficult", "hard", "simple", "complicated", "use", "operate",
                    "setup"}],
     [theme |-> "size_fit",
      keywords |-> {"size", "fit", "large", "small", "big", "tight", "loose", "comfortable",
                    "uncomfortable"}],
     [theme |-> "battery_life",
      keywords |-> {"battery", "charge", "last", "long", "short", "power", "dead"}],
     [theme |-> "appearance",
      keywords |-> {"look", "appearance", "color", "design", "beautiful", "ugly",
                    "attractive", "stylish"}],
     [theme |-> "smell_aroma",
      keywords |-> {"smell", "odor", "scent", "aroma", "fragrance", "stink", "fresh",
                    "bad smell"}] >>

\* content.match(/k1|k2|.../i): some keyword occurs somewhere in the content
Matches(content, keywords) ==
  \E i \in 1..Len(content) : KeywordsIn(content[i]) \cap keywords # {}

RECURSIVE ThemesFrom(_, _)
ThemesFrom(content, k) ==
  IF k > Len(ThemeRules) THEN <<>>
  ELSE (IF Matches(content, ThemeRules[k].keywords) THEN <<ThemeRules[k].theme>> ELSE <<>>)
       \o ThemesFrom(content, k + 1)

extractThemes(content) ==
  LET themes == ThemesFrom(content, 1)
  IN IF Len(themes) > 0 THEN themes ELSE <<"general_experience">>

\* calculateSentiment centred on rating 2
calculateSentimentFromTwo(rating) == Rat(rating - 2, 2)

calculateSentiment(rating) == Rat(rating - 3, 2)

\* the brand-name patterns and the phrase table of transformQuote, per token
TransformToken(token) ==
  CASE token = "Premium Greens" -> "this product"
    [] token = "ACME" -> "this brand"
    [] token = "waste of money" -> "not worth the price"
    [] OTHER -> token

transformQuote(content, title) ==
  LET transformed == [i \in 1..Len(content) |-> TransformToken(content[i])]
  IN IF title # NoValue /\ title # ""
     THEN [title |-> title, text |-> transformed]
     ELSE [title |-> NoValue, text |-> transformed]

(***************************************************************************)
(* processReviews: two insertion-ordered maps theme -> accumulator, kept   *)
(* as sequences of entries in order of first insertion.                    *)
(***************************************************************************)
MapHas(m, theme) == \E i \in 1..Len(m) : m[i].theme = theme

\* MapAdd that leaves an entry the map already has as it is
MapAddOnce(m, theme, sentiment, quote) ==
  IF MapHas(m, theme) THEN m
  ELSE Append(m, [theme |-> theme, sentiment |-> sentiment, mentions |-> 1,
                  quotes |-> <<quote>>])

MapAdd(m, theme, sentiment, quote) ==
  LET m1 == IF MapHas(m, theme) THEN m
            ELSE Append(m, [theme |-> theme, sentiment |-> Rat(0, 1), mentions |-> 0,
                            quotes |-> <<>>])
  IN [i \in 1..Len(m1) |->
        IF m1[i].theme = theme
        THEN [theme |-> theme,
              sentiment |-> RatAdd(m1[i].sentiment, sentiment),
              mentions |-> m1[i].mentions + 1,
              quotes |-> Append(m1[i].quotes, quote)]
        ELSE m1[i]]

RECURSIVE RouteThemes(_, _, _, _)
RouteThemes(maps, review, themes, k) ==
  IF k > Len(themes) THEN maps
  ELSE LET sentiment == calculateSentiment(review.rating)
           quote == transformQuote(review.content, review.title)
           next == IF RatLess(sentiment, Rat(0, 1))
                   THEN [maps EXCEPT !.pain = MapAdd(@, themes[k], sentiment, quote)]
                   ELSE IF RatLess(Rat(3, 10), sentiment)
                   THEN [maps EXCEPT !.delight = MapAdd(@, themes[k], sentiment, quote)]
                   ELSE maps
       IN RouteThemes(next, review, themes, k + 1)

RECURSIVE AccumulateReviews(_, _, _)
AccumulateReviews(maps, reviews, k) ==
  IF k > Len(reviews) THEN maps
  ELSE LET content == [i \in 1..Len(reviews[k].content) |->
                          toLowerCase(reviews[k].content[i])]
       IN AccumulateReviews(RouteThemes(maps, reviews[k], extractThemes(content), 1),
                            reviews, k + 1)

\* Array.prototype.sort((a, b) => b.mentions - a.mentions): stable, descending
RECURSIVE InsertByMentions(_, _)
InsertByMentions(sorted, e) ==
  IF sorted = <<>> THEN <<e>>
  ELSE IF Head(sorted).mentions >= e.mentions
       THEN <<Head(sorted)>> \o InsertByMentions(Tail(sorted), e)
       ELSE <<e>> \o sorted

RECURSIVE SortByMentions(_)
SortByMentions(s) ==
  IF s = <<>> THEN <<>>
  ELSE InsertByMentions(SortByMentions(SubSeq(s, 1, Len(s) - 1)), s[Len(s)])

\* FinalFormat keeping every quote
FinalFormatAllQuotes(m) ==
  LET mapped == [i \in 1..Len(m) |->
                   [theme |-> m[i].theme,
                    sentiment |-> RatDivInt(m[i].sentiment, m[i].mentions),
                    mentions |-> m[i].mentions,
                    example_quotes |-> m[i].quotes]]
      filtered == SelectSeq(mapped, LAMBDA p : p.mentions >= 1)
  IN SortByMentions(filtered)

FinalFormat(m) ==
  LET mapped == [i \in 1..Len(m) |->
                   [theme |-> m[i].theme,
                    sentiment |-> RatDivInt(m[i].sentiment, m[i].mentions),
                    mentions |-> m[i].mentions,
                    example_quotes |-> Take(m[i].quotes, 3)]]
      filtered == SelectSeq(mapped, LAMBDA p : p.mentions >= 1)
  IN SortByMentions(filtered)

processReviews(reviews) ==
  LET maps == AccumulateReviews([pain |-> <<>>, delight |-> <<>>], reviews, 1)
  IN [pain_points |-> FinalFormat(maps.pain),
      delight_factors |-> FinalFormat(maps.delight)]

\* the row a pain_points / delight_factors insert writes (sentiment is DECIMAL(3,2))
InsightRow(insight) ==
  [theme |-> insight.theme, sentiment |-> Decimal32(insight.sentiment),
   mentions |-> insight.mentions, example_quotes |-> insight.example_quotes]

InsightRows(insights) == [i \in 1..Len(insights) |-> InsightRow(insights[i])]

(***************************************************************************)
(* What the external collaborators can answer.                             *)
(***************************************************************************)
ScrapeFailure(error) ==
  [success |-> FALSE, error |-> error, reviews |-> <<>>, warning |-> NoValue]

ScrapeSuccess(reviews, warning) ==
  [success |-> TRUE, error |-> NoValue, reviews |-> reviews, warning |-> warning]

ReviewsMixed ==
  << Review(5, "Amazing", <<"amazing", "taste", "and", "great", "energy">>),
     Review(1, NoValue, <<"terrible", "taste">>) >>

ReviewsNeutral == << Review(3, NoValue, <<"good", "taste">>) >>

\* a scraper fails, or answers with reviews; the scraper of unsupported sites
\* adds its warning (product-service.ts 730)
ScrapeResults ==
  { ScrapeFailure("Scraping failed"),
    ScrapeSuccess(<<>>, NoValue),
    ScrapeSuccess(ReviewsNeutral, NoValue),
    ScrapeSuccess(ReviewsMixed, NoValue),
    ScrapeSuccess(ReviewsMixed, "Limited scraping capabilities") }

\* the packs one generateViralityPacks call returns
GeneratedPacks(origin, n) == [k \in 1..n |-> [origin |-> origin, index |-> k]]

(***************************************************************************)
(* State.                                                                  *)
(***************************************************************************)
VARIABLES
  product_containers,  \* table product_containers: id -> row
  brand_rules,         \* table brand_rules: ids of the containers that have a row
  pain_points,         \* table pain_points: container id -> rows in insertion order
  delight_factors,     \* table delight_factors: container id -> rows
  virality_packs,      \* table virality_packs: container id -> rows
  user_subscriptions,  \* the row of the user in user_subscriptions, or NoRow
  creates,             \* calls of createProductContainer and where each stands
  gets,                \* calls of getUserSubscription and where each stands
  ingests,             \* POST /ingest requests and the pipeline runs they start
  regens,              \* POST /regenerate requests and where each stands
  scraper_calls,       \* number of scrapeProduct invocations so far
  analyses,            \* calls of analyzeScript and where each stands
  scripts,             \* the row of the script under edit in table scripts
  args,                \* arguments of the call of a pure function under study
  returned             \* what that call returned, once it has

vars ==
  <<product_containers, brand_rules, pain_points, delight_factors, virality_packs,
    user_subscriptions, creates, gets, ingests, regens, scraper_calls, analyses,
    scripts, args, returned>>

editor == <<analyses, scripts>>

tables ==
  <<product_containers, brand_rules, pain_points, delight_factors, virality_packs,
    user_subscriptions>>

ContainerIds == 1..MaxCreates

NoRow == [exists |-> FALSE, angle_credits |-> 0, credits_used |-> 0]

AbsentContainer ==
  [exists |-> FALSE, platform |-> NoValue, status |-> NoValue, error_message |-> NoValue]

Status(c) == product_containers[c].status

\* A process record holds the program position and the locals that are still live;
\* a handler that has returned holds none.
IdleCreate ==
  [pc |-> "idle", url |-> UrlGarbage, platform |-> NoValue, cid |-> 0, result |-> NoValue]

NoScrape == [success |-> FALSE, error |-> NoValue, reviews |-> <<>>, warning |-> NoValue]

IdleIngest ==
  [pc |-> "idle", cid |-> 0, seen |-> NoValue, scrape |-> NoScrape,
   stored |-> 0, no_insights |-> FALSE, generated |-> FALSE, packs |-> <<>>,
   packs_stored |-> FALSE,
   ar_error |-> NoValue, error |-> NoValue, response |-> 0]

NoBrandRules == [present |-> FALSE, forbidden_keywords |-> <<>>, required_keywords |-> <<>>]

\* the column compliance_flags of scripts holds a JSON value: the object {} that
\* createScript inserts, or the array of flags updateScriptCompliance writes
NoFlagsObject == [kind |-> "object", elements |-> <<>>]

\* the script has no row; `created` says that its id was handed out, so that a
\* deleted script is not created again
NoScript ==
  [exists |-> FALSE, created |-> FALSE, product_container_id |-> 0,
   compliance_flags |-> NoFlagsObject]

DeletedScript == [NoScript EXCEPT !.created = TRUE]

IdleAnalysis ==
  [pc |-> "idle", content |-> <<>>, brandRules |-> NoBrandRules, complianceFlags |-> <<>>,
   suggestions |-> <<>>, provider_calls |-> 0, result |-> NoValue]

\* `before`: the packs stored for the container when regenerateViralityPacks
\* was called
IdleRegen ==
  [pc |-> "idle", cid |-> 0, seen |-> NoValue, packs |-> <<>>, before |-> <<>>,
   result |-> NoValue]

\* `result`: the row a call of getUserSubscription returned, NoRow for null
IdleGet == [pc |-> "idle", result |-> NoRow]

Returned(idle, result) == [idle EXCEPT !.pc = "done", !.result = result]

\* the rows a user can have in user_subscriptions before the first call
SubscriptionRows ==
  {NoRow} \cup {[exists |-> TRUE, angle_credits |-> a, credits_used |-> 0] :
                  a \in 0..MaxCredits}

\* the row getUserSubscription inserts for a user that has none
DefaultSubscription == [exists |-> TRUE, angle_credits |-> 3, credits_used |-> 0]

NotReturned == [done |-> FALSE, value |-> NoValue]

InitStore(subscriptions) ==
  /\ product_containers = [c \in ContainerIds |-> AbsentContainer]
  /\ brand_rules = {}
  /\ pain_points = [c \in ContainerIds |-> <<>>]
  /\ delight_factors = [c \in ContainerIds |-> <<>>]
  /\ virality_packs = [c \in ContainerIds |-> <<>>]
  /\ user_subscriptions \in subscriptions
  /\ creates = [k \in 1..MaxCreates |-> IdleCreate]
  /\ gets = [k \in 1..MaxGets |-> IdleGet]
  /\ ingests = [i \in 1..MaxIngests |-> IdleIngest]
  /\ regens = [g \in 1..MaxRegens |-> IdleRegen]
  /\ analyses = [a \in 1..MaxAnalyses |-> IdleAnalysis]
  /\ scripts = NoScript
  /\ scraper_calls = 0

\* no pure function is under study
NoCall == args = NoValue /\ returned = NotReturned

\* a user with any subscription row, or none
Init == InitStore(SubscriptionRows) /\ NoCall

\* a user whose default subscription row getUserSubscription has inserted
InitDefault == InitStore({DefaultSubscription}) /\ NoCall

\* the state after that user's first createProductContainer call, for an Amazon
\* URL, has returned success: container 1 and its brand rules are stored
InitEditor ==
  /\ product_containers =
       [c \in ContainerIds |->
          IF c = 1 THEN [exists |-> TRUE, platform |-> "amazon", status |-> "pending",
                         error_message |-> NoValue]
          ELSE AbsentContainer]
  /\ brand_rules = {1}
  /\ pain_points = [c \in ContainerIds |-> <<>>]
  /\ delight_factors = [c \in ContainerIds |-> <<>>]
  /\ virality_packs = [c \in ContainerIds |-> <<>>]
  /\ user_subscriptions = DefaultSubscription
  /\ creates = [k \in 1..MaxCreates |->
                  IF k = 1 THEN Returned(IdleCreate, "success") ELSE IdleCreate]
  /\ gets = [k \in 1..MaxGets |-> IdleGet]
  /\ ingests = [i \in 1..MaxIngests |-> IdleIngest]
  /\ regens = [g \in 1..MaxRegens |-> IdleRegen]
  /\ analyses = [a \in 1..MaxAnalyses |-> IdleAnalysis]
  /\ scripts = NoScript
  /\ scraper_calls = 0
  /\ NoCall

(***************************************************************************)
(* updateProductContainerStatus: one UPDATE of the container row.  `ok` is *)
(* whether the store applied it; the function swallows the error.          *)
(***************************************************************************)
updateProductContainerStatus(c, status, errorMessage, ok) ==
  IF ok /\ product_containers[c].exists
  THEN [product_containers EXCEPT
          ![c].status = status,
          ![c].error_message = IF errorMessage # NoValue /\ errorMessage # ""
                               THEN errorMessage ELSE @]
  ELSE product_containers

FirstIdle(procs, k) == procs[k].pc = "idle" /\ \A j \in 1..(k - 1) : procs[j].pc # "idle"

(***************************************************************************)
(* Angle credits: the two stored procedures of the migration.              *)
(*                                                                         *)
(* has_sufficient_credits declares a variable credits_used and runs        *)
(*   SELECT angle_credits, credits_used INTO current_credits, credits_used *)
(* so the name credits_used of the select list is both a variable of the   *)
(* function and a column of the table.  PL/pgSQL resolves such a name by   *)
(* the parameter plpgsql.variable_conflict, whose default, error, rejects  *)
(* the statement as ambiguous.  The repository sets the parameter nowhere  *)
(* (no SET, no ALTER, no #variable_conflict in a function body), so every  *)
(* call of the function raises, with any row of the user or none.          *)
(***************************************************************************)
\* has_sufficient_credits: what a call answers, "raises" or a boolean
has_sufficient_credits == "raises"

\* consume_angle_credit: the row after the UPDATE, whose WHERE clause calls
\* has_sufficient_credits; the UPDATE changes nothing when that call raises
consume_angle_credit ==
  IF has_sufficient_credits = "true"
  THEN [user_subscriptions EXCEPT !.credits_used = @ + 1]
  ELSE user_subscriptions

(***************************************************************************)
(* getUserSubscription: select the row of the user and, when the select    *)
(* answers that there is none (PGRST116), insert the default row.  Both    *)
(* requests are awaited, so calls interleave between them.  The result is  *)
(* the row, or null (NoRow) when a request failed.                         *)
(***************************************************************************)
\* the select (lines 270-276, 293-299): the row, or null on any error other
\* than no row, whether the user has a row or not
GetSelect(k) ==
  /\ FirstIdle(gets, k)
  /\ \E ok \in BOOLEAN :
       gets' = [gets EXCEPT ![k] =
         IF ~ok THEN Returned(IdleGet, NoRow)
         ELSE IF user_subscriptions.exists THEN Returned(IdleGet, user_subscriptions)
         ELSE [@ EXCEPT !.pc = "insert"]]
  /\ UNCHANGED <<editor, args, returned, tables, creates, ingests, regens, scraper_calls>>

\* the insert (lines 278-292).  user_id is UNIQUE: the store refuses the row
\* when another call has inserted one since the select, and the call returns
\* null although the user has a row
GetInsert(k) ==
  /\ gets[k].pc = "insert"
  /\ \E ok \in BOOLEAN :
       IF ok /\ ~user_subscriptions.exists
       THEN /\ user_subscriptions' = DefaultSubscription
            /\ gets' = [gets EXCEPT ![k] = Returned(IdleGet, DefaultSubscription)]
       ELSE /\ gets' = [gets EXCEPT ![k] = Returned(IdleGet, NoRow)]
            /\ UNCHANGED user_subscriptions
  /\ UNCHANGED <<editor, args, returned, product_containers, brand_rules, pain_points,
                 delight_factors, virality_packs, creates, ingests, regens, scraper_calls>>

getUserSubscription == \E k \in 1..MaxGets : GetSelect(k) \/ GetInsert(k)

(***************************************************************************)
(* createProductContainer                                                  *)
(***************************************************************************)
\* the id of the next row of product_containers: ids are handed out in the order
\* of the inserts and the id of a deleted row is not used again
NextContainerId ==
  Cardinality({k \in 1..MaxCreates :
                 \/ creates[k].pc = "brand"
                 \/ creates[k].pc = "done" /\ creates[k].result = "success"}) + 1

InsufficientCredits ==
  "Insufficient angle credits. Please upgrade your plan to analyze external products."

\* an entry that sends a URL of no supported platform to the insert as well
CreateCallUnmetered(k, url) ==
  /\ FirstIdle(creates, k)
  /\ LET v == validateAndDetectPlatform(url)
     IN creates' = [creates EXCEPT ![k] =
          IF ~v.valid THEN Returned(IdleCreate, v.error)
          ELSE [@ EXCEPT !.pc = "insert", !.url = url, !.platform = v.platform]]
  /\ UNCHANGED <<gets, editor, args, returned, tables, ingests, regens, scraper_calls>>

\* entry: validate the URL and detect the platform (lines 51-59)
CreateCall(k, url) ==
  /\ FirstIdle(creates, k)
  /\ LET v == validateAndDetectPlatform(url)
     IN creates' = [creates EXCEPT ![k] =
          IF ~v.valid THEN Returned(IdleCreate, v.error)
          ELSE [@ EXCEPT !.pc = IF v.platform = "external" THEN "check" ELSE "insert",
                         !.url = url, !.platform = v.platform]]
  /\ UNCHANGED <<gets, editor, args, returned, tables, ingests, regens, scraper_calls>>

\* a credit check whose answer is not looked at
CreateCheckCreditsUnchecked(k) ==
  /\ creates[k].pc = "check"
  /\ creates' = [creates EXCEPT ![k].pc = "insert"]
  /\ UNCHANGED <<gets, editor, args, returned, tables, ingests, regens, scraper_calls>>

\* rpc('has_sufficient_credits'): data is null when the rpc answers an error, as
\* it does when the function raises (lines 61-70)
CreateCheckCredits(k) ==
  /\ creates[k].pc = "check"
  /\ \E rpc_ok \in BOOLEAN :
       LET answer == has_sufficient_credits
           hasCredits == IF rpc_ok /\ answer # "raises" THEN answer ELSE "null"
       IN creates' = [creates EXCEPT ![k] =
            IF hasCredits = "true" THEN [@ EXCEPT !.pc = "consume"]
            ELSE Returned(IdleCreate, InsufficientCredits)]
  /\ UNCHANGED <<gets, editor, args, returned, tables, ingests, regens, scraper_calls>>

\* rpc('consume_angle_credit'): its result is not looked at (line 73).  The
\* step follows a credit check that answered true, which none does: no call
\* gets here, and createProductContainerBy has no disjunct for it
CreateConsumeCredit(k) ==
  /\ creates[k].pc = "consume"
  /\ \E rpc_ok \in BOOLEAN :
       user_subscriptions' = IF rpc_ok THEN consume_angle_credit
                             ELSE user_subscriptions
  /\ creates' = [creates EXCEPT ![k].pc = "insert"]
  /\ UNCHANGED <<gets, editor, args, returned, product_containers, brand_rules, pain_points, delight_factors,
                 virality_packs, ingests, regens, scraper_calls>>

\* insert into product_containers (lines 79-93)
CreateInsert(k) ==
  /\ creates[k].pc = "insert"
  /\ \E ok \in BOOLEAN :
       IF ok
       THEN LET c == NextContainerId
            IN /\ product_containers' = [product_containers EXCEPT ![c] =
                    [exists |-> TRUE, platform |-> creates[k].platform,
                     status |-> "pending", error_message |-> NoValue]]
               /\ creates' = [creates EXCEPT ![k] = [IdleCreate EXCEPT !.pc = "brand",
                                                                      !.cid = c]]
       ELSE /\ creates' = [creates EXCEPT ![k] =
                             Returned(IdleCreate, "Failed to create product container")]
            /\ UNCHANGED product_containers
  /\ UNCHANGED <<gets, editor, args, returned, brand_rules, pain_points, delight_factors, virality_packs,
                 user_subscriptions, ingests, regens, scraper_calls>>

\* insert into brand_rules, unchecked; then return success (lines 96-108).  The
\* row references the container: the store refuses it when the container is gone
CreateBrandRules(k) ==
  /\ creates[k].pc = "brand"
  /\ \E ok \in BOOLEAN :
       brand_rules' = IF ok /\ product_containers[creates[k].cid].exists
                      THEN brand_rules \cup {creates[k].cid} ELSE brand_rules
  /\ creates' = [creates EXCEPT ![k] = Returned(IdleCreate, "success")]
  /\ UNCHANGED <<gets, editor, args, returned, product_containers, pain_points, delight_factors, virality_packs,
                 user_subscriptions, ingests, regens, scraper_calls>>

createProductContainerBy(slots) ==
  \E k \in slots :
    \/ \E url \in ProductUrls : CreateCall(k, url)
    \/ CreateCheckCredits(k)
    \/ CreateInsert(k)
    \/ CreateBrandRules(k)

createProductContainer == createProductContainerBy(1..MaxCreates)

\* deleteProductContainer: one DELETE of the container row; the rows of
\* brand_rules, pain_points, delight_factors, virality_packs and scripts that
\* reference it go with it (ON DELETE CASCADE)
deleteProductContainer(c) ==
  /\ product_containers[c].exists
  /\ \E ok \in BOOLEAN :
       IF ok
       THEN /\ product_containers' = [product_containers EXCEPT ![c] = AbsentContainer]
            /\ brand_rules' = brand_rules \ {c}
            /\ pain_points' = [pain_points EXCEPT ![c] = <<>>]
            /\ delight_factors' = [delight_factors EXCEPT ![c] = <<>>]
            /\ virality_packs' = [virality_packs EXCEPT ![c] = <<>>]
            /\ scripts' = IF scripts.exists /\ scripts.product_container_id = c
                          THEN DeletedScript ELSE scripts
       ELSE UNCHANGED <<product_containers, brand_rules, pain_points, delight_factors,
                        virality_packs, scripts>>
  /\ UNCHANGED <<analyses, args, returned, user_subscriptions, creates, gets, ingests, regens,
                 scraper_calls>>

(***************************************************************************)
(* POST /api/products/[id]/ingest and IngestionService.startIngestion      *)
(***************************************************************************)
\* getProductContainerWithAnalysis: the handler reads the container row; the
\* function returns null when the select answers an error or no row (line 155)
IngestRead(i, c) ==
  /\ FirstIdle(ingests, i)
  /\ \E ok \in BOOLEAN :
       ingests' = [ingests EXCEPT ![i].pc = "route", ![i].cid = c,
         ![i].seen = IF ok /\ product_containers[c].exists THEN Status(c) ELSE "absent"]
  /\ UNCHANGED <<editor, args, returned, tables, creates, gets, regens, scraper_calls>>

\* a handler or run that is over: only the answer of the route is left
Over(response) == [IdleIngest EXCEPT !.pc = "done", !.response = response]

\* the 404 and the two 409 answers of the route
IngestReject(i) ==
  /\ ingests[i].pc = "route"
  /\ ingests[i].seen \in {"absent", "scraping", "analyzing", "completed"}
  /\ ingests' = [ingests EXCEPT ![i] =
        Over(IF ingests[i].seen = "absent" THEN 404 ELSE 409)]
  /\ UNCHANGED <<editor, args, returned, tables, creates, gets, regens, scraper_calls>>

\* startIngestion: status := scraping, then the run starts in the background
IngestStart(i) ==
  /\ ingests[i].pc = "route"
  /\ ingests[i].seen \notin {"absent", "scraping", "analyzing", "completed"}
  /\ \E ok \in BOOLEAN :
       product_containers' =
         updateProductContainerStatus(ingests[i].cid, "scraping", NoValue, ok)
  /\ ingests' = [ingests EXCEPT ![i].pc = "p_scraping", ![i].seen = NoValue,
                                ![i].response = 200]
  /\ UNCHANGED <<editor, args, returned, brand_rules, pain_points, delight_factors, virality_packs,
                 user_subscriptions, creates, gets, regens, scraper_calls>>

IngestRequestBy(slots) ==
  \E i \in slots :
    \/ \E c \in ContainerIds : IngestRead(i, c)
    \/ IngestReject(i)
    \/ IngestStart(i)

IngestRequest == IngestRequestBy(1..MaxIngests)

(***************************************************************************)
(* IngestionService.processIngestionAsync                                  *)
(***************************************************************************)
\* one status update of a run at program position `at`; `after` is the run afterwards
RunStatusStep(i, at, status, errorMessage, after) ==
  /\ ingests[i].pc = at
  /\ \E ok \in BOOLEAN :
       product_containers' =
         updateProductContainerStatus(ingests[i].cid, status, errorMessage, ok)
  /\ ingests' = [ingests EXCEPT ![i] = after]
  /\ UNCHANGED <<editor, args, returned, brand_rules, pain_points, delight_factors, virality_packs,
                 user_subscriptions, creates, gets, regens, scraper_calls>>

At(i, next) == [ingests[i] EXCEPT !.pc = next]

\* step 1: status := scraping
RunSetScraping(i) == RunStatusStep(i, "p_scraping", "scraping", NoValue, At(i, "scrape"))

\* a run that goes on to the analysis whatever the scraper answered
RunScrapeUnchecked(i) ==
  /\ ingests[i].pc = "scrape"
  /\ \E result \in ScrapeResults :
       ingests' = [ingests EXCEPT ![i].scrape = result, ![i].pc = "p_analyzing"]
  /\ scraper_calls' = scraper_calls + 1
  /\ UNCHANGED <<editor, args, returned, tables, creates, gets, regens>>

\* step 1: scrapingManager.scrapeProduct returns
RunScrape(i) ==
  /\ ingests[i].pc = "scrape"
  /\ \E result \in ScrapeResults :
       ingests' = [ingests EXCEPT ![i].scrape = result,
          ![i].pc = IF ~result.success THEN "p_scrape_failed" ELSE "p_analyzing"]
  /\ scraper_calls' = scraper_calls + 1
  /\ UNCHANGED <<editor, args, returned, tables, creates, gets, regens>>

\* scrape failed: status := failed with the scraper's error, and return
RunScrapeFailed(i) ==
  RunStatusStep(i, "p_scrape_failed", "failed", ingests[i].scrape.error, Over(200))

\* processReviews on each list of reviews a scrape can return
ProcessedReviews ==
  [reviews \in {result.reviews : result \in ScrapeResults} |-> processReviews(reviews)]

\* the number of inserts storeInsights makes for these insights
Inserts(insights) == Len(insights.pain_points) + Len(insights.delight_factors)

\* step 2: status := analyzing; step 3: processReviews.  With no insight
\* storeInsights makes no insert and the run goes on to startAngleReasoning.
RunSetAnalyzing(i) ==
  LET none == Inserts(ProcessedReviews[ingests[i].scrape.reviews]) = 0
  IN RunStatusStep(i, "p_analyzing", "analyzing", NoValue,
       [ingests[i] EXCEPT !.pc = IF none THEN "ar_analyzing" ELSE "store_insights",
                          !.no_insights = none,
                          !.scrape.reviews = IF none THEN <<>> ELSE @])

\* one insert of a row that references container c: the store refuses it when
\* it answers an error or when the container is gone
InsertRow(table, c, row, ok) ==
  IF ok /\ product_containers[c].exists THEN [table EXCEPT ![c] = Append(@, row)]
  ELSE table

\* step 4, storeInsights: one awaited insert per pain point, then one per delight
\* factor, in order; `stored` counts the inserts made so far.  The result of no
\* insert is looked at.
storeInsights(i, insights, ok) ==
  LET c == ingests[i].cid
      n == ingests[i].stored
      pains == Len(insights.pain_points)
  IN IF n < pains
     THEN /\ pain_points' =
               InsertRow(pain_points, c, InsightRow(insights.pain_points[n + 1]), ok)
          /\ UNCHANGED delight_factors
     ELSE /\ delight_factors' =
               InsertRow(delight_factors, c,
                         InsightRow(insights.delight_factors[n + 1 - pains]), ok)
          /\ UNCHANGED pain_points

\* the next insert of storeInsights; after the last one the run goes on
RunStoreInsights(i) ==
  /\ ingests[i].pc = "store_insights"
  /\ \E ok \in BOOLEAN :
       storeInsights(i, ProcessedReviews[ingests[i].scrape.reviews], ok)
  /\ ingests' = [ingests EXCEPT ![i] =
        IF ingests[i].stored + 1 < Inserts(ProcessedReviews[ingests[i].scrape.reviews])
        THEN [@ EXCEPT !.stored = @ + 1]
        ELSE [@ EXCEPT !.pc = "ar_analyzing", !.stored = 0, !.scrape.reviews = <<>>]]
  /\ UNCHANGED <<editor, args, returned, product_containers, brand_rules, virality_packs, user_subscriptions,
                 creates, gets, regens, scraper_calls>>

\* step 6: status := completed, with the scraper's warning as error message
RunSetCompleted(i) ==
  RunStatusStep(i, "p_completed", "completed", ingests[i].scrape.warning, Over(200))

\* catch of processIngestionAsync: status := failed with the caught message
RunCatch(i) == RunStatusStep(i, "p_catch", "failed", ingests[i].error, Over(200))

processIngestionAsyncBy(slots) ==
  \E i \in slots :
    \/ RunSetScraping(i)
    \/ RunScrape(i)
    \/ RunScrapeFailed(i)
    \/ RunSetAnalyzing(i)
    \/ RunStoreInsights(i)
    \/ RunSetCompleted(i)
    \/ RunCatch(i)

processIngestionAsync == processIngestionAsyncBy(1..MaxIngests)

(***************************************************************************)
(* AngleReasoningService.storeViralityPacks: a DELETE whose result is not  *)
(* looked at, then one INSERT of all packs whose error is thrown.          *)
(***************************************************************************)
DeletePacks(c, ok) ==
  IF ok THEN [virality_packs EXCEPT ![c] = <<>>] ELSE virality_packs

InsertPacks(c, packs) == [virality_packs EXCEPT ![c] = @ \o packs]

\* the messages of the errors the store answers
StoreMessages == {"db error"}

\* the insert can go through: the rows reference the container, so the store
\* refuses them when the container is gone
CanInsertPacks(c, packs) == product_containers[c].exists \/ Len(packs) = 0

StorePacksError(message) == "Failed to store virality packs: " \o message

(***************************************************************************)
(* AngleReasoningService.startAngleReasoning, called by the run (step 5)   *)
(***************************************************************************)
\* status := analyzing
ArSetAnalyzing(i) ==
  RunStatusStep(i, "ar_analyzing", "analyzing", NoValue, At(i, "ar_load"))

ContainerNotFound == "Product container not found"

\* select the container (lines 60-70): throws when the select answers an error
\* or no row
ArLoadContainer(i) ==
  /\ ingests[i].pc = "ar_load"
  /\ \E ok \in BOOLEAN :
       ingests' = [ingests EXCEPT ![i] =
         IF ok /\ product_containers[ingests[i].cid].exists
         THEN [@ EXCEPT !.pc = "ar_insights"]
         ELSE [@ EXCEPT !.pc = "ar_catch", !.ar_error = ContainerNotFound]]
  /\ UNCHANGED <<editor, args, returned, tables, creates, gets, regens, scraper_calls>>

\* the error startAngleReasoning throws on the insights it has selected,
\* NoValue when it throws none (lines 86-96)
LoadError(c, insights_ok) ==
  IF ~insights_ok THEN "Failed to fetch insights data"
  ELSE IF Len(pain_points[c]) = 0 /\ Len(delight_factors[c]) = 0
  THEN "Insufficient customer data to generate insights"
  ELSE NoValue

\* select the pain points and the delight factors (lines 73-96).  The two
\* selects of the Promise.all are one step: only whether both lists are empty is
\* looked at, and the rows of a container only grow until the container is
\* deleted, so two reads at different moments decide as one read at one of
\* these moments does.
ArLoad(i) ==
  /\ ingests[i].pc = "ar_insights"
  /\ \E insights_ok \in BOOLEAN :
       LET e == LoadError(ingests[i].cid, insights_ok)
       IN ingests' = [ingests EXCEPT ![i] =
            IF e = NoValue THEN [@ EXCEPT !.pc = "ar_generate"]
            ELSE [@ EXCEPT !.pc = "ar_catch", !.ar_error = e]]
  /\ UNCHANGED <<editor, args, returned, tables, creates, gets, regens, scraper_calls>>

GenerateError == "Failed to generate AI-powered virality insights"

\* aiService.generateViralityPacks returns an analysis or throws (line 109)
ArGenerate(i) ==
  /\ ingests[i].pc = "ar_generate"
  /\ \/ \E n \in 0..MaxPacks :
          ingests' = [ingests EXCEPT ![i].pc = "ar_delete", ![i].generated = TRUE,
                        ![i].packs = GeneratedPacks(<<"ingest", i>>, n)]
     \/ ingests' = [ingests EXCEPT ![i].pc = "ar_catch", ![i].ar_error = GenerateError]
  /\ UNCHANGED <<editor, args, returned, tables, creates, gets, regens, scraper_calls>>

\* storeViralityPacks: the delete (lines 172-178)
ArDeletePacks(i) ==
  /\ ingests[i].pc = "ar_delete"
  /\ \E ok \in BOOLEAN : virality_packs' = DeletePacks(ingests[i].cid, ok)
  /\ ingests' = [ingests EXCEPT ![i].pc = "ar_insert"]
  /\ UNCHANGED <<editor, args, returned, product_containers, brand_rules, pain_points, delight_factors,
                 user_subscriptions, creates, gets, regens, scraper_calls>>

\* storeViralityPacks: the insert (lines 181-204)
ArInsertPacks(i) ==
  /\ ingests[i].pc = "ar_insert"
  /\ \/ /\ CanInsertPacks(ingests[i].cid, ingests[i].packs)
        /\ virality_packs' = InsertPacks(ingests[i].cid, ingests[i].packs)
        /\ ingests' = [ingests EXCEPT ![i].pc = "ar_completed", ![i].packs = <<>>,
                                      ![i].packs_stored = TRUE]
     \/ /\ \E message \in StoreMessages :
             ingests' = [ingests EXCEPT ![i].pc = "ar_catch", ![i].packs = <<>>,
                                        ![i].ar_error = StorePacksError(message)]
        /\ UNCHANGED virality_packs
  /\ UNCHANGED <<editor, args, returned, product_containers, brand_rules, pain_points, delight_factors,
                 user_subscriptions, creates, gets, regens, scraper_calls>>

\* status := completed, return true (lines 115-126)
ArSetCompleted(i) ==
  RunStatusStep(i, "ar_completed", "completed", NoValue, At(i, "p_completed"))

\* the message processIngestionAsync throws when startAngleReasoning returned false
AiFailedError == "AI analysis failed during angle reasoning"

\* catch: status := failed with the caught message, return false (lines 128-136);
\* the run then throws AiFailedError (lines 489-491)
ArCatch(i) ==
  RunStatusStep(i, "ar_catch", "failed", ingests[i].ar_error,
                [ingests[i] EXCEPT !.pc = "p_catch", !.error = AiFailedError])

startAngleReasoningBy(slots) ==
  \E i \in slots :
    \/ ArSetAnalyzing(i)
    \/ ArLoadContainer(i)
    \/ ArLoad(i)
    \/ ArGenerate(i)
    \/ ArDeletePacks(i)
    \/ ArInsertPacks(i)
    \/ ArSetCompleted(i)
    \/ ArCatch(i)

startAngleReasoning == startAngleReasoningBy(1..MaxIngests)

\* IngestionService.cancelIngestion: status := failed, whatever the status is
cancelIngestion(c) ==
  /\ product_containers[c].exists
  /\ \E ok \in BOOLEAN :
       product_containers' =
         updateProductContainerStatus(c, "failed", "Ingestion cancelled by user", ok)
  /\ UNCHANGED <<editor, args, returned, brand_rules, pain_points, delight_factors, virality_packs,
                 user_subscriptions, creates, gets, ingests, regens, scraper_calls>>

(***************************************************************************)
(* POST /api/products/[id]/regenerate and                                  *)
(* AngleReasoningService.regenerateViralityPacks                           *)
(***************************************************************************)
\* getProductContainerWithAnalysis: the route reads the container row; the
\* function returns null when the select answers an error or no row
RegenRead(g, c) ==
  /\ FirstIdle(regens, g)
  /\ \E ok \in BOOLEAN :
       regens' = [regens EXCEPT ![g].pc = "route", ![g].cid = c,
         ![g].seen = IF ok /\ product_containers[c].exists THEN Status(c) ELSE "absent"]
  /\ UNCHANGED <<editor, args, returned, tables, creates, gets, ingests, scraper_calls>>

\* 404 when there is no container, 400 unless its status is completed
RegenReject(g) ==
  /\ regens[g].pc = "route"
  /\ regens[g].seen # "completed"
  /\ regens' = [regens EXCEPT ![g] =
        Returned(IdleRegen, IF regens[g].seen = "absent" THEN "404" ELSE "400")]
  /\ UNCHANGED <<editor, args, returned, tables, creates, gets, ingests, scraper_calls>>

\* a regeneration that marks the container as analyzing, as startAngleReasoning does
RegenLoadSettingStatus(g) ==
  /\ regens[g].pc = "route"
  /\ regens[g].seen = "completed"
  /\ regens' = [regens EXCEPT ![g].pc = "insights", ![g].seen = NoValue,
                               ![g].before = virality_packs[regens[g].cid]]
  /\ product_containers' =
       updateProductContainerStatus(regens[g].cid, "analyzing", NoValue, TRUE)
  /\ UNCHANGED <<editor, args, returned, brand_rules, pain_points, delight_factors,
                 virality_packs, user_subscriptions, creates, gets, ingests, scraper_calls>>

\* regenerateViralityPacks: select the container (lines 246-254); it throws when
\* the select gives no row, as it does on an error
RegenLoad(g) ==
  /\ regens[g].pc = "route"
  /\ regens[g].seen = "completed"
  /\ \E ok \in BOOLEAN :
       regens' = [regens EXCEPT ![g] =
         IF ok /\ product_containers[regens[g].cid].exists
         THEN [@ EXCEPT !.pc = "insights", !.seen = NoValue,
                        !.before = virality_packs[regens[g].cid]]
         ELSE Returned(IdleRegen, "500")]
  /\ UNCHANGED <<editor, args, returned, tables, creates, gets, ingests, scraper_calls>>

\* regenerateViralityPacks: the two selects of the insights, awaited together
\* (lines 257-270); their errors are not looked at (data || []) and the rows
\* they read feed the prompt only
RegenLoadInsights(g) ==
  /\ regens[g].pc = "insights"
  /\ regens' = [regens EXCEPT ![g].pc = "generate"]
  /\ UNCHANGED <<editor, args, returned, tables, creates, gets, ingests, scraper_calls>>

\* aiService.generateViralityPacks returns an analysis or throws (line 310)
RegenGenerate(g) ==
  /\ regens[g].pc = "generate"
  /\ \/ \E n \in 0..MaxPacks :
          regens' = [regens EXCEPT ![g].pc = "delete",
                        ![g].packs = GeneratedPacks(<<"regen", g>>, n)]
     \/ regens' = [regens EXCEPT ![g] = Returned(IdleRegen, "500")]
  /\ UNCHANGED <<editor, args, returned, tables, creates, gets, ingests, scraper_calls>>

\* storeViralityPacks: the delete
RegenDeletePacks(g) ==
  /\ regens[g].pc = "delete"
  /\ \E ok \in BOOLEAN : virality_packs' = DeletePacks(regens[g].cid, ok)
  /\ regens' = [regens EXCEPT ![g].pc = "insert"]
  /\ UNCHANGED <<editor, args, returned, product_containers, brand_rules, pain_points, delight_factors,
                 user_subscriptions, creates, gets, ingests, scraper_calls>>

\* storeViralityPacks: the insert; return true, or false when it threw
RegenInsertPacks(g) ==
  /\ regens[g].pc = "insert"
  /\ \/ /\ CanInsertPacks(regens[g].cid, regens[g].packs)
        /\ virality_packs' = InsertPacks(regens[g].cid, regens[g].packs)
        /\ regens' = [regens EXCEPT ![g] = Returned(IdleRegen, "200")]
     \/ /\ regens' = [regens EXCEPT ![g] = Returned(IdleRegen, "500")]
        /\ UNCHANGED virality_packs
  /\ UNCHANGED <<editor, args, returned, product_containers, brand_rules, pain_points, delight_factors,
                 user_subscriptions, creates, gets, ingests, scraper_calls>>

regenerateViralityPacks ==
  \E g \in 1..MaxRegens :
    \/ \E c \in ContainerIds : RegenRead(g, c)
    \/ RegenReject(g)
    \/ RegenLoad(g)
    \/ RegenLoadInsights(g)
    \/ RegenGenerate(g)
    \/ RegenDeletePacks(g)
    \/ RegenInsertPacks(g)

(***************************************************************************)
(* IEEE-754 doubles, as far as calculateComplianceScore needs them.  Every *)
(* double the scorer meets is a multiple of 2^-62 below 2^16, so a double  *)
(* is held exactly as a sign and a magnitude counted in units of 2^-64:    *)
(*   d = (neg ? -1 : 1) * (mag[1] + mag[2] * 2^16 + ... + mag[5] * 2^64)   *)
(*       / 2^64                                                            *)
(* with five limbs of 16 bits, least significant first.  An operation      *)
(* computes the exact result and rounds it to 53 significant bits, ties to *)
(* even, as the hardware does.                                             *)
(***************************************************************************)
Limb == 256 * 256

ZeroMag == <<0, 0, 0, 0, 0>>

Double(neg, mag) == [neg |-> neg, mag |-> mag]

RECURSIVE Pow2(_)
Pow2(n) == IF n = 0 THEN 1 ELSE 2 * Pow2(n - 1)

RECURSIVE BitsOf(_)
BitsOf(x) == IF x = 0 THEN 0 ELSE 1 + BitsOf(x \div 2)

\* -1, 0 or 1 as a < b, a = b or a > b, from limb k down
RECURSIVE MagCompare(_, _, _)
MagCompare(a, b, k) ==
  IF k = 0 THEN 0
  ELSE IF a[k] < b[k] THEN -1
  ELSE IF a[k] > b[k] THEN 1
  ELSE MagCompare(a, b, k - 1)

RECURSIVE MagAddFrom(_, _, _, _)
MagAddFrom(a, b, k, carry) ==
  IF k > Len(a) THEN <<>>
  ELSE LET sum == a[k] + b[k] + carry
       IN <<sum % Limb>> \o MagAddFrom(a, b, k + 1, sum \div Limb)

MagAdd(a, b) == MagAddFrom(a, b, 1, 0)

\* a - b for a >= b
RECURSIVE MagSubFrom(_, _, _, _)
MagSubFrom(a, b, k, borrow) ==
  IF k > Len(a) THEN <<>>
  ELSE LET diff == a[k] - b[k] - borrow
       IN <<diff % Limb>> \o MagSubFrom(a, b, k + 1, IF diff < 0 THEN 1 ELSE 0)

MagSub(a, b) == MagSubFrom(a, b, 1, 0)

\* the number of bits of a magnitude, from limb k down
RECURSIVE BitLength(_, _)
BitLength(a, k) ==
  IF k = 0 THEN 0
  ELSE IF a[k] # 0 THEN 16 * (k - 1) + BitsOf(a[k])
  ELSE BitLength(a, k - 1)

\* round to nearest, ties to even: the magnitude keeps its 53 leading bits.
\* The highest bit it drops lies in limb `top`, which loses its `bits` low
\* bits; the limbs below are dropped whole.  inexact says that the exact value
\* lies above the magnitude given
RoundToDouble(mag, inexact) ==
  LET dropped == BitLength(mag, Len(mag)) - 53
  IN IF dropped <= 0 THEN mag
     ELSE LET top == (dropped - 1) \div 16 + 1
              bits == dropped - 16 * (top - 1)
              unit == Pow2(bits)
              low == mag[top] % unit
              below == \E k \in 1..(top - 1) : mag[k] # 0
              kept == [k \in 1..Len(mag) |->
                         IF k < top THEN 0 ELSE IF k = top THEN mag[k] - low ELSE mag[k]]
              odd == IF bits < 16 THEN (mag[top] \div unit) % 2 = 1
                     ELSE mag[top + 1] % 2 = 1
              up == \/ 2 * low > unit
                    \/ 2 * low = unit /\ (below \/ inexact \/ odd)
          IN IF up THEN MagAdd(kept, [ZeroMag EXCEPT ![top] = unit]) ELSE kept

\* x + y of two doubles
DoubleAdd(x, y) ==
  IF x.neg = y.neg THEN Double(x.neg, RoundToDouble(MagAdd(x.mag, y.mag), FALSE))
  ELSE LET order == MagCompare(x.mag, y.mag, Len(x.mag))
       IN IF order = 0 THEN Double(FALSE, ZeroMag)
          ELSE IF order > 0
          THEN Double(x.neg, RoundToDouble(MagSub(x.mag, y.mag), FALSE))
          ELSE Double(y.neg, RoundToDouble(MagSub(y.mag, x.mag), FALSE))

\* x - y of two doubles
DoubleSub(x, y) ==
  DoubleAdd(x, IF y.mag = ZeroMag THEN y ELSE Double(~y.neg, y.mag))

\* x < y
DoubleLess(x, y) ==
  IF x.neg # y.neg THEN x.neg
  ELSE IF x.neg THEN MagCompare(x.mag, y.mag, Len(x.mag)) > 0
  ELSE MagCompare(x.mag, y.mag, Len(x.mag)) < 0

\* Math.min and Math.max of two doubles
DoubleMin(x, y) == IF DoubleLess(y, x) THEN y ELSE x

DoubleMax(x, y) == IF DoubleLess(x, y) THEN y ELSE x

\* the limbs 1..k of floor(a / den) and the remainder, by long division
RECURSIVE MagDivFrom(_, _, _, _)
MagDivFrom(a, den, k, rem) ==
  IF k = 0 THEN [quotient |-> <<>>, rem |-> rem]
  ELSE LET cur == rem * Limb + a[k]
           rest == MagDivFrom(a, den, k - 1, cur % den)
       IN [quotient |-> rest.quotient \o <<cur \div den>>, rem |-> rest.rem]

\* the double of num / den for integers 0 <= num < 2^16 and 0 < den <= 1000: a
\* decimal literal of the source (0.3 is DoubleOf(3, 10)) or a division of two
\* integers
DoubleOf(num, den) ==
  LET division == MagDivFrom([ZeroMag EXCEPT ![5] = num], den, Len(ZeroMag), 0)
  IN Double(FALSE, RoundToDouble(division.quotient, division.rem # 0))

(***************************************************************************)
(* ScriptEditorService.calculateComplianceScore, in doubles.               *)
(***************************************************************************)
Severities == {"high", "medium", "low"}

Flag(severity) == [severity |-> severity]

\* the weight of one flag (line 282)
Weight(flag) ==
  IF flag.severity = "high" THEN DoubleOf(3, 10)
  ELSE IF flag.severity = "medium" THEN DoubleOf(15, 100)
  ELSE DoubleOf(5, 100)

\* flags.forEach(flag => totalScore -= weight) (lines 281-284)
RECURSIVE SubtractWeights(_, _)
SubtractWeights(totalScore, flags) ==
  IF Len(flags) = 0 THEN totalScore
  ELSE SubtractWeights(DoubleSub(totalScore, Weight(Head(flags))), Tail(flags))

\* a scorer that returns the total without clamping it
calculateComplianceScoreUnclamped(flags, contentLength) ==
  IF Len(flags) = 0 THEN DoubleOf(1, 1)
  ELSE LET lengthBonus == DoubleMin(DoubleOf(1, 10), DoubleOf(contentLength, 1000))
       IN DoubleAdd(SubtractWeights(DoubleOf(1, 1), flags), lengthBonus)

calculateComplianceScore(flags, contentLength) ==
  IF Len(flags) = 0 THEN DoubleOf(1, 1)
  ELSE LET lengthBonus == DoubleMin(DoubleOf(1, 10), DoubleOf(contentLength, 1000))
           totalScore == DoubleAdd(SubtractWeights(DoubleOf(1, 1), flags), lengthBonus)
       IN DoubleMax(DoubleOf(0, 1), DoubleMin(DoubleOf(1, 1), totalScore))

\* a classifier that does not count the flags
determineRiskLevelBySeverityOnly(flags) ==
  LET highSeverityFlags == Cardinality({k \in 1..Len(flags) : flags[k].severity = "high"})
      mediumSeverityFlags ==
        Cardinality({k \in 1..Len(flags) : flags[k].severity = "medium"})
  IN IF highSeverityFlags > 0 THEN "high"
     ELSE IF mediumSeverityFlags > 2 THEN "high"
     ELSE IF mediumSeverityFlags > 0 THEN "medium"
     ELSE "low"

\* ScriptEditorService.determineRiskLevel (lines 294-302)
determineRiskLevel(flags) ==
  LET highSeverityFlags == Cardinality({k \in 1..Len(flags) : flags[k].severity = "high"})
      mediumSeverityFlags ==
        Cardinality({k \in 1..Len(flags) : flags[k].severity = "medium"})
  IN IF highSeverityFlags > 0 THEN "high"
     ELSE IF mediumSeverityFlags > 2 THEN "high"
     ELSE IF mediumSeverityFlags > 0 \/ Len(flags) > 3 THEN "medium"
     ELSE "low"

\* the flag lists and content lengths the scorer is called with
RECURSIVE FlagLists(_)
FlagLists(n) ==
  IF n = 0 THEN {<<>>}
  ELSE LET shorter == FlagLists(n - 1)
       IN shorter \cup {Append(f, Flag(sev)) : f \in shorter, sev \in Severities}

ContentLengths == {0, 40, 100, 2500}

InitScore ==
  /\ InitStore({DefaultSubscription})
  /\ args \in [flags : FlagLists(MaxFlags), contentLength : ContentLengths]
  /\ returned = NotReturned

\* analyzeScript calls the scorer with the flags and content.length (line 113)
CallCalculateComplianceScore ==
  /\ ~returned.done
  /\ returned' = [done |-> TRUE,
                  value |-> calculateComplianceScore(args.flags, args.contentLength)]
  /\ UNCHANGED <<editor, tables, creates, gets, ingests, regens, scraper_calls, args>>

(***************************************************************************)
(* ScriptEditorService.checkBrandRules.  A string is the sequence of its   *)
(* UTF-16 units; "I." stands for U+0130, whose lower case is the two units *)
(* "i" and the combining dot U+0307.                                       *)
(***************************************************************************)
Units == {"a", "B", "I."}

\* String.prototype.toLowerCase on one unit
LowerOf(unit) ==
  CASE unit = "B" -> <<"b">>
    [] unit = "I." -> <<"i", "dot">>
    [] OTHER -> <<unit>>

RECURSIVE toLowerCaseString(_)
toLowerCaseString(str) ==
  IF Len(str) = 0 THEN <<>>
  ELSE LowerOf(Head(str)) \o toLowerCaseString(Tail(str))

\* the indices (from 0) at which needle occurs in haystack
Occurrences(haystack, needle) ==
  {k \in 0..(Len(haystack) - Len(needle)) :
     SubSeq(haystack, k + 1, k + Len(needle)) = needle}

\* String.prototype.indexOf: the first occurrence, or -1
indexOf(haystack, needle) ==
  IF Occurrences(haystack, needle) = {} THEN -1
  ELSE CHOOSE k \in Occurrences(haystack, needle) :
         \A j \in Occurrences(haystack, needle) : k <= j

\* String.prototype.includes
includes(haystack, needle) == Occurrences(haystack, needle) # {}

NoPosition == [present |-> FALSE, start |-> 0, end |-> 0]

\* the flag of one forbidden keyword that occurs (lines 166-176)
ForbiddenFlag(lowerContent, keyword) ==
  LET index == indexOf(lowerContent, toLowerCaseString(keyword))
  IN [type |-> "brand_rule", severity |-> "high", keyword |-> keyword,
      position |-> [present |-> TRUE, start |-> index, end |-> index + Len(keyword)]]

\* forbidden_keywords.forEach (lines 164-178)
RECURSIVE ForbiddenFlags(_, _)
ForbiddenFlags(lowerContent, keywords) ==
  IF Len(keywords) = 0 THEN <<>>
  ELSE (IF includes(lowerContent, toLowerCaseString(Head(keywords)))
        THEN <<ForbiddenFlag(lowerContent, Head(keywords))>> ELSE <<>>)
       \o ForbiddenFlags(lowerContent, Tail(keywords))

\* the advisory flag of the required keywords (lines 187-192)
RequiredFlag ==
  [type |-> "brand_rule", severity |-> "low", keyword |-> <<>>, position |-> NoPosition]

\* a check that flags every required keyword that is missing
checkBrandRulesPerKeyword(content, brandRules) ==
  LET lowerContent == toLowerCaseString(content)
      required == brandRules.required_keywords
      missing == {k \in 1..Len(required) :
                    ~includes(lowerContent, toLowerCaseString(required[k]))}
  IN ForbiddenFlags(lowerContent, brandRules.forbidden_keywords)
       \o [k \in 1..Cardinality(missing) |-> RequiredFlag]

checkBrandRules(content, brandRules) ==
  LET lowerContent == toLowerCaseString(content)
      required == brandRules.required_keywords
      hasRequiredKeyword ==
        \E k \in 1..Len(required) : includes(lowerContent, toLowerCaseString(required[k]))
  IN ForbiddenFlags(lowerContent, brandRules.forbidden_keywords)
       \o (IF Len(required) > 0 /\ ~hasRequiredKeyword THEN <<RequiredFlag>> ELSE <<>>)

\* the strings of at most n units
RECURSIVE Strings(_)
Strings(n) ==
  IF n = 0 THEN {<<>>}
  ELSE LET shorter == Strings(n - 1)
       IN shorter \cup {Append(str, u) : str \in shorter, u \in Units}

\* the keywords of the brand rules: empty, present in some contents, mixed case
Keywords == {<<>>, <<"a">>, <<"b">>, <<"a", "B">>}

RECURSIVE KeywordLists(_)
KeywordLists(n) ==
  IF n = 0 THEN {<<>>}
  ELSE LET shorter == KeywordLists(n - 1)
       IN shorter \cup {Append(l, k) : l \in shorter, k \in Keywords}

InitBrand ==
  /\ InitStore({DefaultSubscription})
  /\ args \in [content : Strings(MaxContent),
                brandRules : [forbidden_keywords : KeywordLists(MaxKeywords),
                              required_keywords : KeywordLists(MaxKeywords)]]
  /\ returned = NotReturned

\* analyzeScript calls checkBrandRules(content, brandRules) (lines 104-107)
CallCheckBrandRules ==
  /\ ~returned.done
  /\ returned' = [done |-> TRUE, value |-> checkBrandRules(args.content, args.brandRules)]
  /\ UNCHANGED <<editor, tables, creates, gets, ingests, regens, scraper_calls, args>>

(***************************************************************************)
(* ScriptEditorService.analyzeScript.  Scripts are written with the units  *)
(* below; of all the words of the patterns of tosRules only "cure" can be  *)
(* written with them, so each rule keeps the alternatives that can match.  *)
(***************************************************************************)
ScriptUnits == Units \cup {"c", "u", "r", "e", " "}

\* the units the regular expression class \w holds
WordUnits == {"a", "B", "c", "u", "r", "e"}

\* case folding of the flag i of a regular expression
FoldOf(unit) == IF unit = "B" THEN "b" ELSE unit

Fold(str) == [k \in 1..Len(str) |-> FoldOf(str[k])]

tosRules ==
  << [type |-> "tos_violation", severity |-> "high", words |-> {}],
     [type |-> "tos_violation", severity |-> "high", words |-> {}],
     [type |-> "tos_violation", severity |-> "high", words |-> {<<"c", "u", "r", "e">>}],
     [type |-> "tos_violation", severity |-> "medium", words |-> {}],
     [type |-> "tos_violation", severity |-> "medium", words |-> {}],
     [type |-> "tos_violation", severity |-> "high", words |-> {}] >>

\* \b at index k (from 0) of the content
Boundary(content, k) ==
  (k > 0 /\ content[k] \in WordUnits) # (k < Len(content) /\ content[k + 1] \in WordUnits)

\* the words of the rule that match at index k between two \b
MatchesAt(content, rule, k) ==
  {w \in rule.words :
     /\ k + Len(w) <= Len(content)
     /\ Fold(SubSeq(content, k + 1, k + Len(w))) = w
     /\ Boundary(content, k) /\ Boundary(content, k + Len(w))}

\* regex.exec in a loop: the matches from index k on, left to right
RECURSIVE MatchesFrom(_, _, _)
MatchesFrom(content, rule, k) ==
  IF k > Len(content) THEN <<>>
  ELSE IF MatchesAt(content, rule, k) = {} THEN MatchesFrom(content, rule, k + 1)
  ELSE LET w == CHOOSE x \in MatchesAt(content, rule, k) : TRUE
       IN <<[present |-> TRUE, start |-> k, end |-> k + Len(w)]>>
            \o MatchesFrom(content, rule, k + Len(w))

findRuleMatches(content, rule) == MatchesFrom(content, rule, 0)

\* the flags of the rules r.. of tosRules (lines 91-102)
RECURSIVE TosFlags(_, _)
TosFlags(content, r) ==
  IF r > Len(tosRules) THEN <<>>
  ELSE LET matches == findRuleMatches(content, tosRules[r])
       IN [k \in 1..Len(matches) |->
             [type |-> tosRules[r].type, severity |-> tosRules[r].severity,
              keyword |-> <<>>, position |-> matches[k]]]
          \o TosFlags(content, r + 1)

\* value || defaultValue for a text: a text left out or left empty is ""
StringOr(value, defaultValue) == IF value = "" THEN defaultValue ELSE value

\* the scan of analyzeScript (lines 88-108)
ScanScript(content, brandRules) ==
  TosFlags(content, 1)
    \o (IF brandRules.present THEN checkBrandRules(content, brandRules) ELSE <<>>)

\* validateSuggestion (lines 266-273): a field that is missing or "" gets its
\* default; the confidence is Math.min(1, Math.max(0, Number(confidence) || 0.5)),
\* in thousandths, so a confidence that is no number, or 0, gives 0.5
validateSuggestion(suggestion) ==
  [type |-> StringOr(suggestion.type, "suggestion"),
   content |-> StringOr(suggestion.content, "Review script for compliance"),
   reason |-> StringOr(suggestion.reason, "To improve compliance"),
   confidence |->
     IF ~suggestion.numeric \/ suggestion.confidence = 0 THEN 500
     ELSE Min2(1000, Max2(0, suggestion.confidence))]

\* what the model can put where a suggestion is expected: null, or an object;
\* a text field the object leaves out or leaves empty is ""
RawSuggestion(type, content, reason, numeric, confidence) ==
  [isNull |-> FALSE, type |-> type, content |-> content, reason |-> reason,
   numeric |-> numeric, confidence |-> confidence]

RawSuggestions ==
  { [isNull |-> TRUE, type |-> "", content |-> "", reason |-> "",
     numeric |-> FALSE, confidence |-> 0],
    RawSuggestion("", "", "", FALSE, 0),
    RawSuggestion("", "", "", TRUE, 0),
    RawSuggestion("compliance_fix", "may help support", "No guarantee", TRUE, 900),
    RawSuggestion("rewrite", "may help support", "", TRUE, 1500),
    RawSuggestion("hook", "", "No guarantee", TRUE, -200) }

RECURSIVE RawLists(_)
RawLists(n) ==
  IF n = 0 THEN {<<>>}
  ELSE LET shorter == RawLists(n - 1)
       IN shorter \cup {Append(l, x) : l \in shorter, x \in RawSuggestions}

\* what generateText gives: an error, or a text that is a JSON array, another JSON
\* value, or no JSON
ProviderAnswers ==
  {[kind |-> k, elements |-> <<>>] : k \in {"error", "not json", "not array"}}
    \cup {[kind |-> "array", elements |-> l] : l \in RawLists(MaxSuggestions)}

\* generateScriptSuggestions after generateText (lines 245-262): every failure,
\* a null element included, gives []
SuggestionsFrom(answer) ==
  IF answer.kind # "array" THEN <<>>
  ELSE IF \E k \in 1..Len(answer.elements) : answer.elements[k].isNull THEN <<>>
  ELSE [k \in 1..Len(answer.elements) |-> validateSuggestion(answer.elements[k])]

ScriptContents ==
  { <<>>, <<"a">>, <<"c", "u", "r", "e">>, <<"a", "c", "u", "r", "e">>,
    <<"c", "u", "r", "e", " ", "a">>, <<"c", "u", "r", "e", " ", "c", "u", "r", "e">> }

BrandRuleSets ==
  { NoBrandRules,
    [present |-> TRUE, forbidden_keywords |-> << <<"a">> >>, required_keywords |-> <<>>],
    [present |-> TRUE, forbidden_keywords |-> <<>>, required_keywords |-> << <<"b">> >>] }

\* a call that asks the provider for suggestions whatever the scan found
AnalyzeCallAlwaysSuggesting(a, content, brandRules) ==
  /\ FirstIdle(analyses, a)
  /\ analyses' = [analyses EXCEPT ![a] =
       [IdleAnalysis EXCEPT !.pc = "suggest", !.content = content,
          !.brandRules = brandRules,
          !.complianceFlags = ScanScript(content, brandRules),
          !.provider_calls = 1]]
  /\ UNCHANGED <<scripts, tables, creates, gets, ingests, regens, scraper_calls, args, returned>>

\* analyzeScript up to the call of the provider: the scan, then
\* generateScriptSuggestions, which returns [] at once when there is no flag
AnalyzeCall(a, content, brandRules) ==
  /\ FirstIdle(analyses, a)
  /\ LET complianceFlags == ScanScript(content, brandRules)
     IN analyses' = [analyses EXCEPT ![a] =
          [IdleAnalysis EXCEPT
             !.pc = IF Len(complianceFlags) = 0 THEN "update" ELSE "suggest",
             !.content = content, !.brandRules = brandRules,
             !.complianceFlags = complianceFlags,
             !.provider_calls = IF Len(complianceFlags) = 0 THEN 0 ELSE 1]]
  /\ UNCHANGED <<scripts, tables, creates, gets, ingests, regens, scraper_calls, args, returned>>

\* generateText returns or throws
AnalyzeSuggest(a) ==
  /\ analyses[a].pc = "suggest"
  /\ \E answer \in ProviderAnswers :
       analyses' = [analyses EXCEPT ![a].pc = "update",
                                    ![a].suggestions = SuggestionsFrom(answer)]
  /\ UNCHANGED <<scripts, tables, creates, gets, ingests, regens, scraper_calls, args, returned>>

\* the score, the risk level, updateScriptCompliance and the return (lines
\* 112-130).  The UPDATE answers an error, and analyzeScript throws, or it answers
\* none: it has written the flags to the row of the script, or has matched no row
\* when the script has none, which is no error either
AnalyzeUpdate(a) ==
  /\ analyses[a].pc = "update"
  /\ \E ok \in BOOLEAN :
       IF ok
       THEN /\ scripts' =
                 IF scripts.exists
                 THEN [scripts EXCEPT !.compliance_flags =
                         [kind |-> "array", elements |-> analyses[a].complianceFlags]]
                 ELSE scripts
            /\ analyses' = [analyses EXCEPT ![a].pc = "done", ![a].result =
                  [compliance_flags |-> analyses[a].complianceFlags,
                   suggestions |-> analyses[a].suggestions,
                   overall_compliance_score |->
                     calculateComplianceScore(analyses[a].complianceFlags,
                                              Len(analyses[a].content)),
                   risk_level |-> determineRiskLevel(analyses[a].complianceFlags)]]
       ELSE /\ analyses' = [analyses EXCEPT ![a].pc = "thrown"]
            /\ UNCHANGED scripts
  /\ UNCHANGED <<tables, creates, gets, ingests, regens, scraper_calls, args, returned>>

\* createScript (lines 325-357): insert the row of the script, with
\* compliance_flags {}.  The row references the container c: the store refuses it
\* when the container is gone, and createScript throws
createScript(c) ==
  /\ ~scripts.created
  /\ \E ok \in BOOLEAN :
       scripts' = IF ok /\ product_containers[c].exists
                  THEN [exists |-> TRUE, created |-> TRUE, product_container_id |-> c,
                        compliance_flags |-> NoFlagsObject]
                  ELSE scripts
  /\ UNCHANGED <<analyses, tables, creates, gets, ingests, regens, scraper_calls, args, returned>>

\* deleteScript (lines 479-493): one DELETE of the row of the script
deleteScript ==
  /\ scripts.exists
  /\ \E ok \in BOOLEAN : scripts' = IF ok THEN DeletedScript ELSE scripts
  /\ UNCHANGED <<analyses, tables, creates, gets, ingests, regens, scraper_calls, args, returned>>

analyzeScript ==
  \E a \in 1..MaxAnalyses :
    \/ \E content \in ScriptContents, brandRules \in BrandRuleSets :
         AnalyzeCall(a, content, brandRules)
    \/ AnalyzeSuggest(a)
    \/ AnalyzeUpdate(a)

\* h high flags, then m medium flags, then l low flags
FlagsOf(h, m, l) ==
  [k \in 1..(h + m + l) |->
     Flag(IF k <= h THEN "high" ELSE IF k <= h + m THEN "medium" ELSE "low")]

InitRisk ==
  /\ InitStore({DefaultSubscription})
  /\ args \in [flags : {FlagsOf(h, m, l) : h \in 0..MaxHigh, m \in 0..MaxMedium,
                                           l \in 0..MaxLow},
                contentLength : ContentLengths]
  /\ returned = NotReturned

\* analyzeScript computes the score and the risk level (lines 113-114)
CallScoreAndRisk ==
  /\ ~returned.done
  /\ returned' =
       [done |-> TRUE,
        value |-> [overall_compliance_score |->
                     calculateComplianceScore(args.flags, args.contentLength),
                   risk_level |-> determineRiskLevel(args.flags)]]
  /\ UNCHANGED <<editor, tables, creates, gets, ingests, regens, scraper_calls, args>>

(***************************************************************************)
(* AIService: generateViralityPacks.  Numbers are in thousandths.  A value *)
(* the model returned where a number is expected is the result of          *)
(* Number(value): not a number, or a number.  A text field the model left  *)
(* out or left empty is "".  An array field is missing, present but not an *)
(* array, or an array.                                                     *)
(***************************************************************************)
MaxHooks == 4
MaxRawPacks == 2
MaxExisting == 6

NotANumber == [isNaN |-> TRUE, num |-> 0]
NumberOf(n) == [isNaN |-> FALSE, num |-> n]

Missing == [kind |-> "missing", elements |-> <<>>]
NotArray == [kind |-> "not array", elements |-> <<>>]
ArrayOf(elements) == [kind |-> "array", elements |-> elements]
isArray(field) == field.kind = "array"

\* ensureNumber(value, defaultValue, min = -1, max = 1)
ensureNumber(value, defaultValue, min, max) ==
  IF value.isNaN THEN defaultValue ELSE Max2(min, Min2(max, value.num))

\* an element of hook_options as the model returned it, and String(element)
RawHook(k) ==
  IF k = 2 THEN [type |-> "number", text |-> "2"]
  ELSE [type |-> "string", text |-> "Hook"]
StringOf(element) == element.text
RawHooks(n) == ArrayOf([k \in 1..n |-> RawHook(k)])

\* the receiver of a method call: the service, or undefined when the method
\* is called as a plain function
AIServiceInstance == [defined |-> TRUE]
UndefinedThis == [defined |-> FALSE]

NoPack ==
  [angle_name |-> "", core_angle |-> "", hook_options |-> <<>>,
   full_script |-> "", visual_pacing_notes |-> "", audio_suggestion |-> "",
   sentiment_score |-> 0, virality_score |-> 0]

\* this.ensureNumber read from an undefined receiver is a TypeError
validateViralityPack(self, pack) ==
  IF ~self.defined THEN [threw |-> TRUE, value |-> NoPack]
  ELSE [threw |-> FALSE,
        value |->
          [angle_name |-> StringOr(pack.angle_name, "Untitled Angle"),
           core_angle |-> StringOr(pack.core_angle, "Focus on product benefits"),
           hook_options |->
             IF isArray(pack.hook_options)
             THEN [k \in DOMAIN pack.hook_options.elements |->
                     StringOf(pack.hook_options.elements[k])]
             ELSE <<"Try this amazing product!">>,
           full_script |->
             StringOr(pack.full_script,
                      "This product is amazing! You should try it. Link in bio!"),
           visual_pacing_notes |->
             StringOr(pack.visual_pacing_notes,
                      "Show product, speak to camera, call to action"),
           audio_suggestion |->
             StringOr(pack.audio_suggestion, "Upbeat trending audio"),
           sentiment_score |-> ensureNumber(pack.sentiment_score, 0, -1000, 1000),
           virality_score |-> ensureNumber(pack.virality_score, 500, -1000, 1000)]]

\* a map that calls validateViralityPack on the service
MapValidateViralityPackBound(elements) ==
  [threw |-> FALSE,
   value |-> [k \in DOMAIN elements |->
                validateViralityPack(AIServiceInstance, elements[k]).value]]

\* elements.map(this.validateViralityPack): Array.prototype.map calls the
\* function it is given with an undefined receiver
MapValidateViralityPack(elements) ==
  LET results == [k \in DOMAIN elements |->
                    validateViralityPack(UndefinedThis, elements[k])]
  IN IF \E k \in DOMAIN elements : results[k].threw
     THEN [threw |-> TRUE, value |-> <<>>]
     ELSE [threw |-> FALSE, value |-> [k \in DOMAIN elements |-> results[k].value]]

FallbackPack ==
  [angle_name |-> "Problem-Solution",
   core_angle |->
     "Address common customer pain points with your product as the solution",
   hook_options |-> <<"Tired of dealing with [common problem]?",
                      "Finally found a solution for [problem]",
                      "This changed everything for me...">>,
   full_script |->
     "Stop struggling with [pain point]... I found this product that actually works! [show product] It helped me [benefit] and now I can't imagine life without it. Link in bio to try it yourself! #[relevant_hashtags]",
   visual_pacing_notes |->
     "0-3s: show pain point; 3-5s: reveal product; 5-12s: demonstrate benefits; 12-15s: call to action",
   audio_suggestion |-> "Problem-solving trending audio",
   sentiment_score |-> 300,
   virality_score |-> 600]

getFallbackAnalysis ==
  [overall_sentiment_score |-> 200,
   overall_virality_potential |-> 600,
   key_insights |-> <<"Product has mixed customer reviews",
                      "Focus on addressing common pain points",
                      "Highlight unique value proposition">>,
   virality_packs |-> <<FallbackPack>>,
   recommendations |-> <<"Focus on authentic testimonials",
                         "Show before/after results",
                         "Use trending audio formats",
                         "Keep content under 30 seconds",
                         "Include clear call-to-action">>]

NoAnalysis ==
  [overall_sentiment_score |-> 0, overall_virality_potential |-> 0,
   key_insights |-> <<>>, virality_packs |-> <<>>, recommendations |-> <<>>]

\* the object of the response, read field by field
ParsedFields(parsed) ==
  LET packs == IF isArray(parsed.virality_packs)
               THEN MapValidateViralityPack(parsed.virality_packs.elements)
               ELSE [threw |-> FALSE, value |-> <<>>]
  IN [threw |-> packs.threw,
      value |->
        [overall_sentiment_score |->
           ensureNumber(parsed.overall_sentiment_score, 0, -1000, 1000),
         overall_virality_potential |->
           ensureNumber(parsed.overall_virality_potential, 500, -1000, 1000),
         key_insights |-> IF isArray(parsed.key_insights)
                          THEN parsed.key_insights.elements ELSE <<>>,
         virality_packs |-> packs.value,
         recommendations |-> IF isArray(parsed.recommendations)
                             THEN parsed.recommendations.elements ELSE <<>>]]

\* parseViralityAnalysis without its catch block
parseViralityAnalysisUncaught(response) ==
  IF response.kind # "object" \/ ParsedFields(response.parsed).threw
  THEN [threw |-> TRUE, value |-> NoAnalysis]
  ELSE ParsedFields(response.parsed)

parseViralityAnalysis(response) ==
  IF response.kind # "object" \/ ParsedFields(response.parsed).threw
  THEN [threw |-> FALSE, value |-> getFallbackAnalysis]
  ELSE ParsedFields(response.parsed)

\* generateAdditionalPacks letting a failure of the provider through
generateAdditionalPacksUncaught(existingPacks, answer) ==
  IF Len(existingPacks) >= 5
  THEN [threw |-> FALSE, packs |-> <<>>, provider_calls |-> 0]
  ELSE [threw |-> answer.kind = "error",
        packs |-> IF answer.kind = "array"
                     /\ ~MapValidateViralityPack(answer.elements).threw
                  THEN MapValidateViralityPack(answer.elements).value
                  ELSE <<>>,
        provider_calls |-> 1]

generateAdditionalPacks(existingPacks, answer) ==
  IF Len(existingPacks) >= 5
  THEN [threw |-> FALSE, packs |-> <<>>, provider_calls |-> 0]
  ELSE [threw |-> FALSE,
        packs |-> IF answer.kind = "array"
                     /\ ~MapValidateViralityPack(answer.elements).threw
                  THEN MapValidateViralityPack(answer.elements).value
                  ELSE <<>>,
        provider_calls |-> 1]

Failure(calls) ==
  [threw |-> TRUE, message |-> "Failed to generate AI-powered virality insights",
   analysis |-> NoAnalysis, provider_calls |-> calls]

\* generateViralityPacks from the parsed analysis on (lines 103-112)
AddAdditionalPacks(analysis, second) ==
  LET additional == generateAdditionalPacks(analysis.virality_packs, second)
  IN IF additional.threw THEN Failure(additional.provider_calls)
     ELSE [threw |-> FALSE, message |-> "",
           analysis |-> [analysis EXCEPT !.virality_packs = @ \o additional.packs],
           provider_calls |-> additional.provider_calls]

generateViralityPacks(first, second) ==
  IF first.kind = "error" \/ parseViralityAnalysis(first).threw
  THEN Failure(1)
  ELSE LET rest == AddAdditionalPacks(parseViralityAnalysis(first).value, second)
       IN [rest EXCEPT !.provider_calls = @ + 1]

\* What the model returns.
RawPack(angle_name, hook_options, sentiment_score, virality_score) ==
  [angle_name |-> angle_name, core_angle |-> "", hook_options |-> hook_options,
   full_script |-> "", visual_pacing_notes |-> "", audio_suggestion |-> "",
   sentiment_score |-> sentiment_score, virality_score |-> virality_score]

\* the packs the provider answers with
ProviderPacks ==
  {RawPack("Angle A", RawHooks(2), NumberOf(300), NumberOf(-500)),
   RawPack("", NotArray, NotANumber, NotANumber),
   RawPack("Angle B", RawHooks(MaxHooks), NumberOf(1500), NumberOf(800))}

RECURSIVE PackLists(_)
PackLists(n) ==
  IF n = 0 THEN {<<>>}
  ELSE LET shorter == PackLists(n - 1)
       IN shorter \cup {Append(l, p) : l \in shorter, p \in ProviderPacks}

ArrayFields == {Missing, NotArray, ArrayOf(<<"text">>)}
OverallNumbers == {NotANumber, NumberOf(-500), NumberOf(1500)}

EmptyObject ==
  [overall_sentiment_score |-> NotANumber, overall_virality_potential |-> NotANumber,
   key_insights |-> Missing, virality_packs |-> Missing, recommendations |-> Missing]

ParsedObjects ==
  [overall_sentiment_score : OverallNumbers,
   overall_virality_potential : OverallNumbers,
   key_insights : ArrayFields,
   virality_packs : {Missing, NotArray} \cup {ArrayOf(l) : l \in PackLists(MaxRawPacks)},
   recommendations : ArrayFields]

\* the first answer: the provider fails, or its text holds no {...}, or the
\* {...} does not parse, or it parses to an object
FirstAnswers ==
  {[kind |-> k, parsed |-> EmptyObject] : k \in {"error", "no json", "unparseable"}}
    \cup {[kind |-> "object", parsed |-> o] : o \in ParsedObjects}

\* the second answer: the provider fails, or its text holds no [...], or the
\* [...] does not parse, or it parses to an array
SecondAnswers ==
  {[kind |-> k, elements |-> <<>>] : k \in {"error", "no array", "unparseable"}}
    \cup {[kind |-> "array", elements |-> l] : l \in PackLists(MaxRawPacks)}

InitGenerate ==
  /\ InitStore({DefaultSubscription})
  /\ args \in [first : FirstAnswers, second : SecondAnswers]
  /\ returned = NotReturned

CallGenerateViralityPacks ==
  /\ ~returned.done
  /\ returned' = [done |-> TRUE,
                  value |-> generateViralityPacks(args.first, args.second)]
  /\ UNCHANGED <<editor, tables, creates, gets, ingests, regens, scraper_calls, args>>

\* storeViralityPacks: the rows it inserts for the packs it is given (lines
\* 181-191), each field as the pack holds it
packsToInsert(productContainerId, viralityPacks) ==
  [k \in DOMAIN viralityPacks |->
     [product_container_id |-> productContainerId,
      angle_name |-> viralityPacks[k].angle_name,
      core_angle |-> viralityPacks[k].core_angle,
      hook_options |-> viralityPacks[k].hook_options,
      full_script |-> viralityPacks[k].full_script,
      visual_pacing_notes |-> viralityPacks[k].visual_pacing_notes,
      audio_suggestion |-> viralityPacks[k].audio_suggestion,
      sentiment_score |-> viralityPacks[k].sentiment_score,
      virality_score |-> viralityPacks[k].virality_score]]

\* the packs an analysis holds when the additional packs are asked for
ExistingPacks(n) == [k \in 1..n |-> FallbackPack]

InitAdditional ==
  /\ InitStore({DefaultSubscription})
  /\ args \in [existingPacks : {ExistingPacks(n) : n \in 0..MaxExisting},
                second : SecondAnswers]
  /\ returned = NotReturned

CallAddAdditionalPacks ==
  /\ ~returned.done
  /\ returned' =
       [done |-> TRUE,
        value |-> AddAdditionalPacks(
                    [getFallbackAnalysis EXCEPT !.virality_packs = args.existingPacks],
                    args.second)]
  /\ UNCHANGED <<editor, tables, creates, gets, ingests, regens, scraper_calls, args>>

(***************************************************************************)
(* processReviews on lists of reviews.                                     *)
(***************************************************************************)
MaxReviews == 4

ReviewSamples ==
  { Review(5, "Amazing", <<"amazing", "taste">>),
    Review(1, NoValue, <<"terrible", "taste">>),
    Review(2, "", <<"bad", "waste of money">>),
    Review(3, NoValue, <<"good", "taste">>),
    Review(4, "Energy", <<"ACME", "energy">>),
    Review(2, "Greens", <<"Premium Greens", "taste", "helpful">>) }

RECURSIVE ReviewLists(_)
ReviewLists(n) ==
  IF n = 0 THEN {<<>>}
  ELSE LET shorter == ReviewLists(n - 1)
       IN shorter \cup {Append(l, r) : l \in shorter, r \in ReviewSamples}

InitReviews ==
  /\ InitStore({DefaultSubscription})
  /\ args \in [reviews : ReviewLists(MaxReviews)]
  /\ returned = NotReturned

\* processIngestionAsync calls processReviews(scrapingResult.data.reviews)
CallProcessReviews ==
  /\ ~returned.done
  /\ returned' = [done |-> TRUE, value |-> processReviews(args.reviews)]
  /\ UNCHANGED <<editor, tables, creates, gets, ingests, regens, scraper_calls, args>>

(***************************************************************************)
(* ScrapingManager: the scrapers, their canHandle predicates, and the      *)
(* platform of a URL.  A hostname is given by the domains it includes; one *)
(* that includes s.click.aliexpress.com includes aliexpress.com.           *)
(***************************************************************************)
canHandle(scraper, url) ==
  CASE scraper = "AmazonScraper" ->
         url.parses /\ (Includes(url.hostname, "amazon.com")
                          \/ Includes(url.hostname, "amzn.to"))
    [] scraper = "AliExpressScraper" ->
         url.parses /\ (Includes(url.hostname, "aliexpress.com")
                          \/ Includes(url.hostname, "s.click.aliexpress.com"))
    [] scraper = "TikTokShopScraper" ->
         url.parses /\ Includes(url.hostname, "tiktok.com")
                    /\ Includes(url.pathname, "/shop/")
    [] scraper = "GenericExternalScraper" -> TRUE

\* this.scrapers, in the order of the constructor
scrapers ==
  <<"TikTokShopScraper", "AmazonScraper", "AliExpressScraper", "GenericExternalScraper">>

\* this.scrapers.find(s => s.canHandle(url))
FindScraper(url) ==
  IF \E k \in 1..Len(scrapers) : canHandle(scrapers[k], url)
  THEN scrapers[CHOOSE k \in 1..Len(scrapers) :
                  /\ canHandle(scrapers[k], url)
                  /\ \A j \in 1..(k - 1) : ~canHandle(scrapers[j], url)]
  ELSE NoValue

getPlatform(url) ==
  IF canHandle("AmazonScraper", url) THEN "amazon"
  ELSE IF canHandle("AliExpressScraper", url) THEN "aliexpress"
  ELSE IF canHandle("TikTokShopScraper", url) THEN "tiktok_shop"
  ELSE "external"

Hostnames ==
  {h \in SUBSET {"tiktok.com", "amazon.com", "amzn.to", "aliexpress.com",
                  "s.click.aliexpress.com"} :
     "s.click.aliexpress.com" \in h => "aliexpress.com" \in h}

Urls ==
  {UrlGarbage} \cup
  {Url(TRUE, protocol, h, path) :
     protocol \in {"http:", "https:", "ftp:"}, h \in Hostnames,
     path \in {{}, {"/shop/"}}}

InitPlatform ==
  /\ InitStore({DefaultSubscription})
  /\ args \in [url : Urls]
  /\ returned = NotReturned

\* the three places that classify a URL
CallClassify ==
  /\ ~returned.done
  /\ returned' = [done |-> TRUE,
                  value |-> [detected |-> validateAndDetectPlatform(args.url),
                             scraper |-> FindScraper(args.url),
                             platform |-> getPlatform(args.url)]]
  /\ UNCHANGED <<editor, tables, creates, gets, ingests, regens, scraper_calls, args>>

(***************************************************************************)
(* Specifications.                                                         *)
(***************************************************************************)
\* The ingestion pipeline: one container, concurrent ingest requests and runs,
\* cancellation.
Next ==
  \/ createProductContainerBy(1..PipelineCreates)
  \/ IngestRequest
  \/ processIngestionAsync
  \/ startAngleReasoning
  \/ \E c \in ContainerIds : cancelIngestion(c)
  \/ \E c \in ContainerIds : deleteProductContainer(c)

Spec == InitDefault /\ [][Next]_vars

\* Regeneration: one container, its ingestion, cancellation and concurrent
\* regenerate requests.
NextRegen ==
  \/ createProductContainerBy(1..PipelineCreates)
  \/ IngestRequestBy(1..RegenIngests)
  \/ processIngestionAsyncBy(1..RegenIngests)
  \/ startAngleReasoningBy(1..RegenIngests)
  \/ \E c \in ContainerIds : cancelIngestion(c)
  \/ \E c \in ContainerIds : deleteProductContainer(c)
  \/ regenerateViralityPacks

SpecRegen == InitDefault /\ [][NextRegen]_vars

\* Angle credits: concurrent createProductContainer calls of one user, who
\* also deletes containers.
NextCredits ==
  \/ getUserSubscription
  \/ createProductContainer
  \/ \E c \in ContainerIds : deleteProductContainer(c)

SpecCredits == Init /\ [][NextCredits]_vars

\* The compliance scorer on every flag list and content length of the bounds.
NextScore == CallCalculateComplianceScore

SpecScore == InitScore /\ [][NextScore]_vars

\* The score and the risk level of flag lists with up to MaxLow low flags.
NextRisk == CallScoreAndRisk

SpecRisk == InitRisk /\ [][NextRisk]_vars

\* The script editor: calls of analyzeScript.
NextEditor ==
  \/ \E c \in ContainerIds : createScript(c)
  \/ analyzeScript
  \/ deleteScript
  \/ \E c \in ContainerIds : deleteProductContainer(c)

SpecEditor == InitEditor /\ [][NextEditor]_vars

\* checkBrandRules on every content and brand rule set of the bounds.
NextBrand == CallCheckBrandRules

SpecBrand == InitBrand /\ [][NextBrand]_vars

\* generateViralityPacks on every pair of answers of the provider.
NextGenerate == CallGenerateViralityPacks

SpecGenerate == InitGenerate /\ [][NextGenerate]_vars

\* The additional packs, asked for with up to MaxExisting packs at hand.
NextAdditional == CallAddAdditionalPacks

SpecAdditional == InitAdditional /\ [][NextAdditional]_vars

\* processReviews on every list of up to MaxReviews sample reviews.
NextReviews == CallProcessReviews

SpecReviews == InitReviews /\ [][NextReviews]_vars

\* The classification of every URL of the bounds.
NextPlatform == CallClassify

SpecPlatform == InitPlatform /\ [][NextPlatform]_vars

\* One container and its ingestion run, every step of which is eventually
\* taken: each external call of the run returns, with a result or an error.
NextRun ==
  \/ createProductContainerBy(1..PipelineCreates)
  \/ IngestRequestBy(1..RegenIngests)
  \/ processIngestionAsyncBy(1..RegenIngests)
  \/ startAngleReasoningBy(1..RegenIngests)

SpecRun ==
  /\ InitDefault
  /\ [][NextRun]_vars
  /\ WF_vars(processIngestionAsyncBy(1..RegenIngests))
  /\ WF_vars(startAngleReasoningBy(1..RegenIngests))


(***************************************************************************)
(* Properties of the status of a container (under Spec).                   *)
(***************************************************************************)
StatusAfter(c) == product_containers'[c].status

ErrorMessageAfter(c) == product_containers'[c].error_message

\* the run of slot i takes this step
RunSteps(i) == ingests'[i] # ingests[i] /\ ingests[i].pc \notin {"idle", "route"}

DocumentedTransitions ==
  { <<"pending", "scraping">>, <<"scraping", "analyzing">>, <<"analyzing", "completed">>,
    <<"scraping", "failed">>, <<"analyzing", "failed">> }

\* C1: every change of the status of a container is one of pending->scraping,
\* scraping->analyzing, analyzing->completed, scraping->failed, analyzing->failed;
\* in particular never failed->scraping, and completed is never left.
C1_OnlyDocumentedTransitions ==
  [][\A c \in ContainerIds :
       (/\ product_containers[c].exists /\ product_containers'[c].exists
        /\ StatusAfter(c) # Status(c))
         => <<Status(c), StatusAfter(c)>> \in DocumentedTransitions]_vars

\* the positions of a run, past its own writes of scraping, whose step writes a status
\* other than failed
PastScraping == {"p_analyzing", "ar_analyzing", "ar_completed", "p_completed"}

\* C2: once the status of a container is failed, no later step of a run that is in
\* flight changes it to scraping, analyzing or completed.
C2_FailedIsTerminalForRun ==
  [][\A i \in 1..MaxIngests :
       (RunSteps(i) /\ ingests[i].pc \in PastScraping
          /\ Status(ingests[i].cid) = "failed")
         => StatusAfter(ingests[i].cid) = "failed"]_vars

\* C3: the status becomes analyzing only by a step of a run whose scrape returned
\* success, and completed only by a step of a run whose angle generation returned
\* and whose packs were stored; no run is about to write analyzing after a failed
\* scrape, or completed without generated and stored packs.
C3_AnalyzingAndCompletedAreEarned ==
  /\ [](\A i \in 1..MaxIngests :
          /\ ingests[i].pc \in {"p_analyzing", "store_insights", "ar_analyzing"}
               => ingests[i].scrape.success
          /\ ingests[i].pc \in {"ar_completed", "p_completed"}
               => ingests[i].generated /\ ingests[i].packs_stored)
  /\ [][\A c \in ContainerIds :
          /\ (StatusAfter(c) = "analyzing" /\ Status(c) # "analyzing")
               => \E i \in 1..MaxIngests :
                    /\ RunSteps(i) /\ ingests[i].cid = c
                    /\ ingests[i].scrape.success
          /\ (StatusAfter(c) = "completed" /\ Status(c) # "completed")
               => \E i \in 1..MaxIngests :
                    /\ RunSteps(i) /\ ingests[i].cid = c
                    /\ ingests[i].generated /\ ingests[i].packs_stored]_vars

\* a run wrote completed after it generated and stored a pack
C3_RunCompleted ==
  \E i \in 1..MaxIngests :
    /\ ingests[i].pc = "p_completed"
    /\ ingests[i].scrape.success /\ ingests[i].generated /\ ingests[i].packs_stored
    /\ Status(ingests[i].cid) = "completed"
    /\ Len(virality_packs[ingests[i].cid]) > 0

\* the error that made the run of slot i fail
Cause(i) == IF ingests[i].ar_error # NoValue THEN ingests[i].ar_error ELSE ingests[i].error

\* the insights the run of slot i is storing
Produced(i) == processReviews(ingests[i].scrape.reviews)

\* C4: a failing step halts the run there: a run whose insert of an insight is
\* refused (the step adds no row) makes no further insert and does not go on to
\* angle reasoning, and a run that ends in its catch leaves the container failed
\* with the message of the error that caused it.
C4_FailureHaltsWithItsMessage ==
  [][\A i \in 1..MaxIngests :
       LET c == ingests[i].cid
       IN /\ (RunSteps(i) /\ ingests[i].pc = "store_insights"
                /\ pain_points'[c] = pain_points[c]
                /\ delight_factors'[c] = delight_factors[c])
               => ingests'[i].pc \in {"p_catch", "done"}
          /\ (RunSteps(i) /\ ingests[i].pc = "p_catch")
               => /\ StatusAfter(c) = "failed"
                  /\ ErrorMessageAfter(c) = Cause(i)]_vars

\* C5: a run whose reviews gave no pain point and no delight factor never has
\* the completion provider invoked, stores no pack and never writes completed,
\* also when an earlier run of the container stored insights.
C5_NoInsightsNeverGenerates ==
  \A i \in 1..MaxIngests :
    ingests[i].no_insights
      => ingests[i].pc \notin
           {"ar_generate", "ar_delete", "ar_insert", "ar_completed", "p_completed"}

\* every row of `rows` is among the rows `stored`
AllStored(rows, stored) ==
  \A k \in 1..Len(rows) : \E j \in 1..Len(stored) : stored[j] = rows[k]

\* C6: when a run has made the last insert of its insights and all of them are
\* stored, the stored pain points and delight factors of the container are
\* exactly the ones this run produced.
C6_InsightsSuperseded ==
  [][\A i \in 1..MaxIngests :
       LET c == ingests[i].cid
           pp == InsightRows(Produced(i).pain_points)
           df == InsightRows(Produced(i).delight_factors)
       IN (/\ RunSteps(i) /\ ingests[i].pc = "store_insights"
           /\ ingests'[i].pc = "ar_analyzing"
           /\ AllStored(pp, pain_points'[c])
           /\ AllStored(df, delight_factors'[c]))
            => pain_points'[c] = pp /\ delight_factors'[c] = df]_vars

(***************************************************************************)
(* Properties of regeneration (under SpecRegen).                           *)
(***************************************************************************)
\* the request of slot g takes this step
RegenSteps(g) == regens'[g] # regens[g]

\* C7: when a pack generation succeeds (the insert of regenerateViralityPacks or
\* of startAngleReasoning returns without error), the packs stored for the
\* container are exactly the newly generated ones.
C7_PacksReplaced ==
  [][/\ \A g \in 1..MaxRegens :
          (RegenSteps(g) /\ regens[g].pc = "insert" /\ regens'[g].result = "200")
            => virality_packs'[regens[g].cid] = regens[g].packs
     /\ \A i \in 1..MaxIngests :
          (RunSteps(i) /\ ingests[i].pc = "ar_insert" /\ ingests'[i].packs_stored)
            => virality_packs'[ingests[i].cid] = ingests[i].packs]_vars

\* C8: no step of a regenerate request invokes the scraper or changes a container
\* row (status, error_message), a pain point or a delight factor; of the stored
\* data it changes the virality packs only.
C8_RegenerateFrame ==
  [][\A g \in 1..MaxRegens :
       RegenSteps(g)
         => /\ scraper_calls' = scraper_calls
            /\ product_containers' = product_containers
            /\ pain_points' = pain_points
            /\ delight_factors' = delight_factors
            /\ brand_rules' = brand_rules
            /\ user_subscriptions' = user_subscriptions]_vars

\* a regeneration returned true and its pack is stored for a completed container
C8_Regenerated ==
  \E g \in 1..MaxRegens, c \in ContainerIds :
    /\ regens[g].pc = "done" /\ regens[g].result = "200"
    /\ Status(c) = "completed"
    /\ \E k \in 1..Len(virality_packs[c]) : virality_packs[c][k].origin = <<"regen", g>>

(***************************************************************************)
(* Properties of the angle credits (under SpecCredits).                    *)
(***************************************************************************)
\* the user has no credit left: angle_credits - credits_used <= 0, or no row
NoRemainingCredit ==
  \/ ~user_subscriptions.exists
  \/ user_subscriptions.angle_credits - user_subscriptions.credits_used <= 0

\* C9: a createProductContainer call for an external URL that checks the credits
\* of a user who has none left returns the error and changes nothing: no
\* container, no brand rules, no credit consumed, no ingestion started.
C9_NoCreditNoContainer ==
  [][\A k \in 1..MaxCreates :
       (creates[k].pc = "check" /\ creates'[k] # creates[k] /\ NoRemainingCredit)
         => /\ creates'[k].pc = "done"
            /\ creates'[k].result = InsufficientCredits
            /\ product_containers' = product_containers
            /\ brand_rules' = brand_rules
            /\ user_subscriptions' = user_subscriptions
            /\ ingests' = ingests]_vars

\* a call was rejected for a user without credit, and no container exists
C9_Rejected ==
  \E k \in 1..MaxCreates :
    /\ creates[k].pc = "done" /\ creates[k].result = InsufficientCredits
    /\ NoRemainingCredit
    /\ \A c \in ContainerIds : ~product_containers[c].exists
    /\ brand_rules = {}

(***************************************************************************)
(* Properties of the compliance scorer (under SpecScore).                  *)
(***************************************************************************)
Count(flags, severity) ==
  Cardinality({k \in 1..Len(flags) : flags[k].severity = severity})

Clamp(x, lo, hi) == IF x < lo THEN lo ELSE IF x > hi THEN hi ELSE x

\* clamp(1 - 0.30 high - 0.15 medium - 0.05 low + min(0.10, contentLength / 1000),
\* 0, 1) as a real number, in thousandths
FormulaThousandths(flags, contentLength) ==
  Clamp(1000 - 300 * Count(flags, "high") - 150 * Count(flags, "medium")
             - 50 * Count(flags, "low") + Min2(100, contentLength), 0, 1000)

\* the magnitude a * n, for n <= 1000 and a below 2^70
RECURSIVE MagScaleFrom(_, _, _, _)
MagScaleFrom(a, n, k, carry) ==
  IF k > Len(a) THEN <<>>
  ELSE LET product == a[k] * n + carry
       IN <<product % Limb>> \o MagScaleFrom(a, n, k + 1, product \div Limb)

\* the double d is the real number thousandths / 1000 >= 0 up to rounding:
\* |1000 * d - thousandths| < 2^-32
Near(d, thousandths) ==
  LET scaled == MagScaleFrom(d.mag, 1000, 1, 0)
      target == [ZeroMag EXCEPT ![5] = thousandths]
      diff == IF d.neg THEN MagAdd(scaled, target)
              ELSE IF MagCompare(scaled, target, Len(ZeroMag)) >= 0
              THEN MagSub(scaled, target)
              ELSE MagSub(target, scaled)
  IN \A k \in 3..Len(diff) : diff[k] = 0

\* C10 as amended: the score is clamp(1 - 0.30 high - 0.15 medium - 0.05 low +
\* min(0.10, contentLength / 1000), 0, 1) up to the rounding of the double
\* arithmetic, and it is within [0, 1].
C10_ScoreFormulaUpToRounding ==
  returned.done
    => /\ Near(returned.value, FormulaThousandths(args.flags, args.contentLength))
       /\ ~DoubleLess(returned.value, DoubleOf(0, 1))
       /\ ~DoubleLess(DoubleOf(1, 1), returned.value)

\* C10 as stated: the score is the value of the formula, that is the double of
\* that real number.
C10_ScoreFormula ==
  returned.done
    => returned.value =
         DoubleOf(FormulaThousandths(args.flags, args.contentLength), 1000)

\* five high flags: the total is below 0 and the score is 0
C10_ClampedAtZero ==
  /\ returned.done
  /\ Count(args.flags, "high") > 4
  /\ returned.value = DoubleOf(0, 1)

(***************************************************************************)
(* Properties of the risk level (under SpecRisk).                          *)
(***************************************************************************)
\* the risk level the flags alone give
RiskOf(flags) ==
  IF Count(flags, "high") >= 1 \/ Count(flags, "medium") > 2 THEN "high"
  ELSE IF Count(flags, "medium") >= 1 \/ Len(flags) > 3 THEN "medium"
  ELSE "low"

\* one high flag and no other
OneHighFlag(flags) == Count(flags, "high") = 1 /\ Len(flags) = 1

\* C11 as amended: the risk level is high with a high flag or more than 2 medium
\* flags, else medium with a medium flag or more than 3 flags, else low, whatever
\* the score and the content length are; one high flag alone with content length
\* >= 100 gives risk high and a score that is 0.8 up to the rounding of the
\* double arithmetic.
C11_RiskFromFlagsAloneScoreRounded ==
  returned.done
    => /\ returned.value.risk_level = RiskOf(args.flags)
       /\ (OneHighFlag(args.flags) /\ args.contentLength >= 100)
            => /\ Near(returned.value.overall_compliance_score, 800)
               /\ returned.value.risk_level = "high"

\* C11 as stated: the risk level is that function of the flags, and one high flag
\* alone with content length >= 100 gives score 0.8 and risk high.
C11_RiskFromFlagsAlone ==
  returned.done
    => /\ returned.value.risk_level = RiskOf(args.flags)
       /\ (OneHighFlag(args.flags) /\ args.contentLength >= 100)
            => /\ returned.value.overall_compliance_score = DoubleOf(8, 10)
               /\ returned.value.risk_level = "high"

\* no high flag, at most 2 medium flags, many low flags: score 0 and risk medium
C11_ScoreZeroRiskMedium ==
  /\ returned.done
  /\ Count(args.flags, "high") = 0
  /\ Count(args.flags, "medium") <= 2
  /\ Count(args.flags, "low") > 3
  /\ returned.value.overall_compliance_score = DoubleOf(0, 1)
  /\ returned.value.risk_level = "medium"

(***************************************************************************)
(* Properties of checkBrandRules (under SpecBrand).                        *)
(***************************************************************************)
\* the keyword occurs in the content, as a case-insensitive substring
OccursIn(content, keyword) ==
  includes(toLowerCaseString(content), toLowerCaseString(keyword))

FlagsOfSeverity(flags, severity) == {k \in 1..Len(flags) : flags[k].severity = severity}

\* C12: the required keywords give exactly one low flag, without a position, when
\* there are required keywords and none occurs in the content, and no low flag
\* otherwise, however many required keywords are missing.
C12_OneAdvisoryFlag ==
  returned.done
    => LET required == args.brandRules.required_keywords
           low == FlagsOfSeverity(returned.value, "low")
           noneOccurs == \A k \in 1..Len(required) : ~OccursIn(args.content, required[k])
       IN /\ Cardinality(low) = IF Len(required) > 0 /\ noneOccurs THEN 1 ELSE 0
          /\ \A k \in low : ~returned.value[k].position.present

\* two required keywords are missing and there is one advisory flag
C12_TwoMissingOneFlag ==
  /\ returned.done
  /\ Len(args.brandRules.required_keywords) = 2
  /\ \A k \in 1..2 : ~OccursIn(args.content, args.brandRules.required_keywords[k])
  /\ Cardinality(FlagsOfSeverity(returned.value, "low")) = 1

\* the forbidden keywords that occur in the content, in the order of the list
RECURSIVE OccurringKeywords(_, _)
OccurringKeywords(content, keywords) ==
  IF Len(keywords) = 0 THEN <<>>
  ELSE (IF OccursIn(content, Head(keywords)) THEN <<Head(keywords)>> ELSE <<>>)
       \o OccurringKeywords(content, Tail(keywords))

\* C13: each forbidden keyword that occurs in the content gives exactly one high
\* flag and each other none; the position of the flag is the span of the first
\* occurrence, end = start + keyword length, within 0 <= start <= end <= content
\* length.
C13_ForbiddenKeywordSpans ==
  returned.done
    => LET occurring == OccurringKeywords(args.content, args.brandRules.forbidden_keywords)
           high == FlagsOfSeverity(returned.value, "high")
       IN /\ high = 1..Len(occurring)
          /\ \A k \in high :
               LET flag == returned.value[k]
               IN /\ flag.keyword = occurring[k]
                  /\ flag.position.present
                  /\ flag.position.start \in Occurrences(toLowerCaseString(args.content),
                                                         toLowerCaseString(flag.keyword))
                  /\ \A j \in Occurrences(toLowerCaseString(args.content),
                                          toLowerCaseString(flag.keyword)) :
                       flag.position.start <= j
                  /\ flag.position.end = flag.position.start + Len(flag.keyword)
                  /\ 0 <= flag.position.start
                  /\ flag.position.start <= flag.position.end
                  /\ flag.position.end <= Len(args.content)

(***************************************************************************)
(* Properties of analyzeScript (under SpecEditor).                         *)
(***************************************************************************)
\* C14: a call of analyzeScript whose scan gave no flag has not invoked the
\* completion provider and has the empty list of suggestions; a call invokes the
\* provider at most once, and only with at least one flag.
C14_NoFlagNoProviderCall ==
  \A a \in 1..MaxAnalyses :
    /\ analyses[a].provider_calls <= 1
    /\ (analyses[a].pc # "idle" /\ Len(analyses[a].complianceFlags) = 0)
         => analyses[a].provider_calls = 0 /\ analyses[a].suggestions = <<>>
    /\ analyses[a].provider_calls = 1 => Len(analyses[a].complianceFlags) > 0
    /\ analyses[a].pc = "done"
         => /\ analyses[a].result.suggestions = analyses[a].suggestions
            /\ analyses[a].result.compliance_flags = analyses[a].complianceFlags

\* a call returned for a non-empty script without flag: no suggestion, no provider call
C14_ReturnedWithoutFlags ==
  \E a \in 1..MaxAnalyses :
    /\ analyses[a].pc = "done"
    /\ Len(analyses[a].content) > 0
    /\ analyses[a].result.compliance_flags = <<>>
    /\ analyses[a].result.suggestions = <<>>
    /\ analyses[a].provider_calls = 0


\* the text of the first answer holds no JSON object that parses
NoParseableObject == args.first.kind \in {"no json", "unparseable"}

\* C15: when the text the provider returns holds no parseable JSON object,
\* generateViralityPacks does not throw and returns the hardcoded fallback
\* analysis: overall sentiment 0.2, overall virality potential 0.6, and a pack
\* set of length 1 (the fallback pack).
C15_NoObjectGivesFallback ==
  (returned.done /\ NoParseableObject) =>
    /\ ~returned.value.threw
    /\ returned.value.analysis.overall_sentiment_score = 200
    /\ returned.value.analysis.overall_virality_potential = 600
    /\ Len(returned.value.analysis.virality_packs) = 1
    /\ returned.value.analysis = getFallbackAnalysis

\* text without a JSON object was answered by the fallback analysis, while the
\* second answer held two packs
C15_FallbackReturned ==
  /\ returned.done
  /\ args.first.kind = "no json"
  /\ args.second.kind = "array"
  /\ Len(args.second.elements) = 2
  /\ ~returned.value.threw
  /\ returned.value.analysis = getFallbackAnalysis


\* the first answer parses to an object in which a required array field is
\* missing or is not an array
ArrayFieldLacking ==
  /\ args.first.kind = "object"
  /\ \/ ~isArray(args.first.parsed.key_insights)
     \/ ~isArray(args.first.parsed.virality_packs)
     \/ ~isArray(args.first.parsed.recommendations)

\* C16: when the object the provider returns lacks a required array field
\* (key_insights, virality_packs or recommendations missing or not an array),
\* the generator returns the hardcoded fallback result (sentiment 0.2, virality
\* potential 0.6, one fallback pack), not a result with that field empty.
C16_LackingFieldGivesFallback ==
  (returned.done /\ ArrayFieldLacking) =>
    /\ ~returned.value.threw
    /\ returned.value.analysis = getFallbackAnalysis


\* the first answer parses to an object whose virality_packs is a non-empty
\* array of objects
PacksAnswered ==
  /\ args.first.kind = "object"
  /\ isArray(args.first.parsed.virality_packs)
  /\ Len(args.first.parsed.virality_packs.elements) > 0

\* C17: when the object the provider returns holds a non-empty array of packs,
\* generateViralityPacks returns one validated pack per element, in order,
\* missing fields replaced by their defaults, and not the fallback analysis.
C17_PacksValidatedInOrder ==
  (returned.done /\ PacksAnswered) =>
    LET elements == args.first.parsed.virality_packs.elements
        packs == returned.value.analysis.virality_packs
    IN /\ ~returned.value.threw
       /\ Len(packs) >= Len(elements)
       /\ \A k \in 1..Len(elements) :
            packs[k] = validateViralityPack(AIServiceInstance, elements[k]).value


\* the first answer holds a pack whose hook_options are not a list of 3
HooksNotThree ==
  /\ PacksAnswered
  /\ \E k \in 1..Len(args.first.parsed.virality_packs.elements) :
       LET hooks == args.first.parsed.virality_packs.elements[k].hook_options
       IN ~isArray(hooks) \/ Len(hooks.elements) # 3

C19_ScoresInRange ==
  (returned.done /\ ~returned.value.threw) =>
    LET analysis == returned.value.analysis
    IN /\ analysis.overall_sentiment_score \in -1000..1000
       /\ analysis.overall_virality_potential \in 0..1000
       /\ \A k \in 1..Len(analysis.virality_packs) :
            /\ analysis.virality_packs[k].sentiment_score \in -1000..1000
            /\ analysis.virality_packs[k].virality_score \in 0..1000


\* the second invocation failed: the provider failed, or its text held no JSON
\* array, or the array did not parse, or an element of it lacks its fields
SecondFailed ==
  \/ args.second.kind \in {"error", "no array", "unparseable"}
  \/ \E k \in 1..Len(args.second.elements) : args.second.elements[k].angle_name = ""

\* C20: the additional-packs invocation is best-effort: when it fails
\* (provider error, no JSON array, unparseable or invalid elements) it adds no
\* pack, generateViralityPacks does not throw and returns the packs of the
\* first invocation unchanged; with 5 or more packs from the first invocation
\* the provider is not called again.
C20_AdditionalPacksBestEffort ==
  returned.done =>
    /\ ~returned.value.threw
    /\ SecondFailed =>
         returned.value.analysis.virality_packs = args.existingPacks
    /\ Len(args.existingPacks) >= 5 =>
         /\ returned.value.provider_calls = 0
         /\ returned.value.analysis.virality_packs = args.existingPacks

\* the provider failed on the second invocation, and the one pack of the first
\* was returned
C20_SecondFailedFirstKept ==
  /\ returned.done
  /\ args.second.kind = "error"
  /\ Len(args.existingPacks) = 1
  /\ returned.value.provider_calls = 1
  /\ ~returned.value.threw
  /\ returned.value.analysis.virality_packs = args.existingPacks


\* the themes of a review, as processReviews extracts them
ThemesOf(review) ==
  Range(extractThemes([i \in 1..Len(review.content) |-> toLowerCase(review.content[i])]))

InBucket(review, bucket) ==
  IF bucket = "pain" THEN RatLess(calculateSentiment(review.rating), Rat(0, 1))
  ELSE RatLess(Rat(3, 10), calculateSentiment(review.rating))

\* the indices of the reviews routed to a bucket and theme, in encounter order
RoutedTo(reviews, bucket, theme) ==
  SelectSeq([k \in 1..Len(reviews) |-> k],
            LAMBDA k : InBucket(reviews[k], bucket) /\ theme \in ThemesOf(reviews[k]))

CountedAndQuoted(insight, reviews, bucket) ==
  LET routed == RoutedTo(reviews, bucket, insight.theme)
  IN /\ insight.mentions >= 1
     /\ insight.mentions = Len(routed)
     /\ Len(insight.example_quotes) <= 3
     /\ insight.example_quotes =
          [j \in 1..Min2(3, Len(routed)) |->
             transformQuote(reviews[routed[j]].content, reviews[routed[j]].title)]

\* C21: every pain point and delight factor processReviews emits has
\* mentions >= 1, mentions being the number of reviews routed to its bucket and
\* theme, and at most 3 example quotes: the transformed quotes of the first
\* min(3, mentions) such reviews in encounter order; no review gives two empty
\* buckets.
C21_MentionsAndQuotes ==
  returned.done =>
    /\ \A k \in 1..Len(returned.value.pain_points) :
         CountedAndQuoted(returned.value.pain_points[k], args.reviews, "pain")
    /\ \A k \in 1..Len(returned.value.delight_factors) :
         CountedAndQuoted(returned.value.delight_factors[k], args.reviews, "delight")
    /\ args.reviews = <<>> =>
         returned.value.pain_points = <<>> /\ returned.value.delight_factors = <<>>

\* a pain point with 4 mentions was emitted with 3 quotes
C21_FourMentionsThreeQuotes ==
  /\ returned.done
  /\ \E k \in 1..Len(returned.value.pain_points) :
       /\ returned.value.pain_points[k].mentions = 4
       /\ Len(returned.value.pain_points[k].example_quotes) = 3


AllThemes == {ThemeRules[k].theme : k \in 1..Len(ThemeRules)} \cup {"general_experience"}

\* the mentions a bucket gives a theme: 0 when the theme is not emitted
MentionsOf(insights, theme) ==
  IF \E k \in 1..Len(insights) : insights[k].theme = theme
  THEN (CHOOSE e \in Range(insights) : e.theme = theme).mentions
  ELSE 0

\* the number of reviews of a theme whose rating satisfies a condition
ReviewsWith(reviews, theme, Cond(_)) ==
  Cardinality({k \in 1..Len(reviews) :
                 theme \in ThemesOf(reviews[k]) /\ Cond(reviews[k].rating)})

\* (rating - 3)/2 < 0, and (rating - 3)/2 > 0.3
SentimentNegative(rating) == rating - 3 < 0
SentimentAboveThreshold(rating) == 10 * (rating - 3) > 6

\* C22: with sentiment = (rating - 3)/2 a review counts in the pain-point
\* bucket of each of its themes iff its sentiment is < 0, in the delight-factor
\* bucket iff its sentiment is > 0.3, and in neither otherwise; every emitted
\* pain point has average sentiment < 0 and every emitted delight factor has
\* average sentiment > 0.3.
C22_RoutedBySentiment ==
  returned.done =>
    /\ \A theme \in AllThemes :
         /\ MentionsOf(returned.value.pain_points, theme) =
              ReviewsWith(args.reviews, theme, SentimentNegative)
         /\ MentionsOf(returned.value.delight_factors, theme) =
              ReviewsWith(args.reviews, theme, SentimentAboveThreshold)
    /\ \A k \in 1..Len(returned.value.pain_points) :
         RatLess(returned.value.pain_points[k].sentiment, Rat(0, 1))
    /\ \A k \in 1..Len(returned.value.delight_factors) :
         RatLess(Rat(3, 10), returned.value.delight_factors[k].sentiment)

\* reviews of ratings 3, 2 and 4 were processed: the review of rating 3 is in
\* no bucket, the others in one each
C22_RatingThreeInNoBucket ==
  /\ returned.done
  /\ Len(args.reviews) = 3
  /\ args.reviews[1].rating = 3
  /\ args.reviews[2].rating = 2
  /\ args.reviews[3].rating = 4
  /\ MentionsOf(returned.value.pain_points, "taste_quality") = 1
  /\ MentionsOf(returned.value.delight_factors, "general_experience") = 1
  /\ MentionsOf(returned.value.delight_factors, "taste_quality") = 0


\* the entry a bucket holds for a theme
EntryOf(insights, theme) == CHOOSE e \in Range(insights) : e.theme = theme

\* three reviews of ratings 5, 1 and 2, in some order, all of theme
\* taste_quality
RatingsFiveOneTwo ==
  /\ Len(args.reviews) = 3
  /\ \A rating \in {5, 1, 2} : \E k \in 1..3 : args.reviews[k].rating = rating
  /\ \A k \in 1..3 : "taste_quality" \in ThemesOf(args.reviews[k])

\* C23: the two buckets are aggregated independently and can hold the same
\* theme at once: for reviews of ratings 5, 1 and 2 that all match
\* taste_quality, pain_points holds taste_quality with mentions 2 and sentiment
\* -0.75 and delight_factors holds taste_quality with mentions 1 and
\* sentiment 1.0.
C23_SameThemeInBothBuckets ==
  (returned.done /\ RatingsFiveOneTwo) =>
    /\ MentionsOf(returned.value.pain_points, "taste_quality") = 2
    /\ RatEq(EntryOf(returned.value.pain_points, "taste_quality").sentiment, Rat(-3, 4))
    /\ MentionsOf(returned.value.delight_factors, "taste_quality") = 1
    /\ RatEq(EntryOf(returned.value.delight_factors, "taste_quality").sentiment, Rat(1, 1))

\* the reviews of ratings 5, 1 and 2 were processed, in that order
C23_FiveOneTwoProcessed ==
  /\ returned.done
  /\ RatingsFiveOneTwo
  /\ args.reviews[1].rating = 5
  /\ args.reviews[2].rating = 1
  /\ \E k \in 1..Len(returned.value.pain_points) :
       returned.value.pain_points[k].theme = "taste_quality"
  /\ \E k \in 1..Len(returned.value.delight_factors) :
       returned.value.delight_factors[k].theme = "taste_quality"


\* the platform a scraper scrapes
PlatformOfScraper(scraper) ==
  CASE scraper = "TikTokShopScraper" -> "tiktok_shop"
    [] scraper = "AmazonScraper" -> "amazon"
    [] scraper = "AliExpressScraper" -> "aliexpress"
    [] scraper = "GenericExternalScraper" -> "external"
    [] OTHER -> NoValue

\* C24: for every valid http(s) URL, including one that satisfies more than
\* one predicate, the platform validateAndDetectPlatform stores, the scraper
\* scrapeProduct chooses and the result of getPlatform denote the same
\* platform.
C24_OnePlatformEverywhere ==
  (returned.done /\ returned.value.detected.valid) =>
    /\ PlatformOfScraper(returned.value.scraper) = returned.value.detected.platform
    /\ returned.value.platform = returned.value.detected.platform


\* a run of startIngestion is in flight for container c
RunStarted(c) ==
  \E i \in 1..MaxIngests : ingests[i].pc = "p_scraping" /\ ingests[i].cid = c

\* C25: every ingestion run started by startIngestion eventually leaves its
\* container in status completed or failed, every external call of the run
\* returning with a result or an error.
C25_RunEndsCompletedOrFailed ==
  \A c \in ContainerIds :
    RunStarted(c) ~> (product_containers[c].status \in {"completed", "failed"})


\* slot i holds a run that startIngestion started and that is not over
InFlight(i) == ingests[i].pc \notin {"idle", "route", "done"}

\* C26: at most one ingestion run is in flight per container: of two ingest
\* requests for one container handled concurrently at most one starts a
\* pipeline.
C26_OneRunPerContainer ==
  \A c \in ContainerIds :
    Cardinality({i \in 1..MaxIngests : InFlight(i) /\ ingests[i].cid = c}) <= 1


\* C27: whenever the status of a container is completed, at least one virality
\* pack is stored for it, after the first ingestion run and after any
\* regenerations, successful or failed.
C27_CompletedHasPacks ==
  \A c \in ContainerIds :
    (product_containers[c].exists /\ Status(c) = "completed")
      => Len(virality_packs[c]) >= 1


\* the packs stored for the container of request g when its
\* regenerateViralityPacks call began
BeforeCall(g) ==
  IF regens[g].pc = "route" THEN virality_packs[regens[g].cid] ELSE regens[g].before

\* C30: when regenerateViralityPacks returns false (the route answers 500), the
\* packs stored for the container, unless it was deleted meanwhile, are those
\* stored before the call.
C30_FailedRegenerationKeepsPacks ==
  [][\A g \in 1..MaxRegens :
       (RegenSteps(g) /\ regens[g].pc \in {"route", "generate", "insert"}
          /\ regens'[g].pc = "done" /\ regens'[g].result = "500"
          /\ product_containers'[regens[g].cid].exists)
         => virality_packs'[regens[g].cid] = BeforeCall(g)]_vars


\* the containers created for a URL of no supported platform
ExternalContainers ==
  {c \in ContainerIds : product_containers[c].exists
                        /\ product_containers[c].platform = "external"}

StartedAnalyses == {a \in 1..MaxAnalyses : analyses[a].pc # "idle"}
LatestAnalysis == CHOOSE a \in StartedAnalyses : \A b \in StartedAnalyses : b <= a

\* C29: when every analyzeScript call made for the script is over and the most
\* recent one has returned, the compliance flags persisted for the script (its
\* row exists and an analysis has written flags to it) are those computed from
\* the most recently submitted content, also when an earlier call finished later.
C29_LatestContentPersisted ==
  (/\ StartedAnalyses # {}
   /\ \A a \in StartedAnalyses : analyses[a].pc \in {"done", "thrown"}
   /\ analyses[LatestAnalysis].pc = "done"
   /\ scripts.exists /\ scripts.compliance_flags.kind = "array")
    => scripts.compliance_flags.elements =
         ScanScript(analyses[LatestAnalysis].content, analyses[LatestAnalysis].brandRules)

====
